---- MODULE Spec2Model ----
(***************************************************************************)
(* The decision-and-risk pipeline of trading-bot-swarm: the Risk Manager   *)
(* ledger (src/src/core/risk_manager.py) driven by the Trading Engine's    *)
(* candle, ticker and force-close handlers (src/src/core/trading_engine.py)*)
(*                                                                         *)
(* Numbers.  The program computes in binary floating point; the model      *)
(* computes in exact fixed point:                                          *)
(*   - a price is a whole number of ticks of 0.01;                         *)
(*   - a quantity is a whole number of units, QtyOne units making 1.0;     *)
(*     the grid round(x, n) rounds to is 2 units wide, so that the one     *)
(*     halving a position can undergo (TP1, partial_close = 0.5) is exact, *)
(*     as multiplying by 0.5 is exact in floating point;                   *)
(*   - money (capital, P&L, risk) is a whole number of tick*unit           *)
(*     products, so price_diff * quantity needs no conversion.             *)
(* The program rounds quantities to 8 decimals; TLC's integers are 32 bits *)
(* wide, so the model rounds to Decimals decimals by the same rule         *)
(* (nearest, ties to even).                                                *)
(***************************************************************************)
EXTENDS Integers, Sequences, FiniteSets, TLC

\* ------------------------------------------------------------- bounds
\* Decimals kept by round(position_size, n); the program keeps 8.
Decimals == 3
\* Signals the strategy may return in one run (signals_generated is unbounded
\* in the program); it also bounds total_trades and the closed history.
MaxSignals == 2
\* Trade callbacks that may be registered (the list is unbounded).
MaxCallbacks == 2
\* Primary candles received in one run (the stream is unbounded): past the
\* window's capacity, so that candles are evicted.
MaxCandles == 1003
\* candles received while consumers are being registered
MaxRecords == 3
\* consecutive connection failures the network produces
MaxFailures == 6
\* connections of one client the network drops
MaxDrops == 2
\* candles fed to the strategy, seconds between two readings of the clock,
\* the last reading
MaxFed == 40
ClockStep == 360
MaxClock == 2160
\* positions added to the Portfolio
MaxAdded == 2
\* signals analyze_market returns to the run loop
MaxBotSignals == 2

\* ---------------------------------------------------- program constants
MaxPortfolioRiskPct == 10
MaxDrawdownPct == 15
\* min_risk_reward = 1.5, in tenths
MinRiskRewardTenths == 15
\* 95% of capital may be committed to one position
AffordablePct == 95
\* remaining_quantity <= 0.001 counts as fully closed: 1/1000 of 1.0
AlmostZeroPerOne == 1000
\* candles the rolling window keeps
WindowCapacity == 1000
\* MEXCWebSocketClient.reconnect_delay and max_reconnect_delay, in seconds
ReconnectDelay == 5
MaxReconnectDelay == 60
\* NOICEStrategyParameters: the indicator periods get_required_history reads
EmaSlow == 21
MacdSlow == 26
BbPeriod == 20
AtrPeriod == 14
VolumePeriod == 20
\* NOICEStrategyParameters.min_confidence, in hundredths
MinConfidence == 75
\* StrategyParameters.max_signals_per_hour
MaxSignalsPerHour == 5
\* add_data keeps at least this many candles; log_signal keeps this many signals
MinBufferSize == 500
SignalHistoryCapacity == 100
\* BaseBot.__init__: initial_balance
InitialBalance == 10000
\* BaseBot.stop: the wait for the main loop, in sleeps of 0.1 s
StopTimeout == 100

\* ------------------------------------------------------- fixed point
RECURSIVE Pow10(_)
Pow10(n) == IF n = 0 THEN 1 ELSE 10 * Pow10(n - 1)

\* units in a quantity of 1.0
QtyOne == 2 * Pow10(Decimals)
\* the rounding grid of round(x, Decimals), 10^-Decimals, in units
Grid == QtyOne \div Pow10(Decimals)
\* money of `cents` ticks of 0.01 currency
Money(cents) == cents * QtyOne

Abs(x) == IF x < 0 THEN -x ELSE x
Min(a, b) == IF a <= b THEN a ELSE b
Max(a, b) == IF a >= b THEN a ELSE b

\* floor(n / d) for d > 0 and any n
FloorDiv(n, d) == IF n >= 0 THEN n \div d ELSE -((-n + d - 1) \div d)

\* round(a * b / d, Decimals) for b >= 0 and d > 0, in units: the nearest grid
\* point, ties to the even one (Python's round).  a is split as qa * g + ra
\* so that no intermediate product leaves 32 bits.
RoundToGrid(a, b, d) ==
    LET g  == Grid * d
        qa == FloorDiv(a, g)
        ra == a - qa * g
        q  == qa * b + FloorDiv(ra * b, g)
        r  == ra * b - FloorDiv(ra * b, g) * g
    IN  IF 2 * r < g THEN q * Grid
        ELSE IF 2 * r > g THEN (q + 1) * Grid
        ELSE IF q % 2 = 0 THEN q * Grid ELSE (q + 1) * Grid

\* ------------------------------------------------------------ inputs
Symbols == {"NOICEUSDT", "ETHUSDT", "BTCUSDT"}
\* close prices of the candles the strategy returns no signal for and last
\* prices of tickers, in ticks of 0.01
Prices == {80, 95, 99, 110, 120}

\* RiskManager(initial_capital, max_risk_per_trade, max_positions): the
\* constructor's parameters, with capital in ticks of 0.01 currency and the
\* risk per trade in percent
Cfg(capital, risk, max_positions) ==
    [capital |-> capital, risk |-> risk, max_positions |-> max_positions]
Configs == { Cfg(2500, 2, 1), Cfg(2500, 12, 2), Cfg(1, 1, 2) }

Sig(t, s, p, sl, t1, t2) ==
    [signal_type |-> t, symbol |-> s, price |-> p, stop_loss |-> sl,
     take_profit_1 |-> t1, take_profit_2 |-> t2]

\* What the strategy may return for a candle; its price is the candle's close.
SignalMenu ==
    { Sig("BUY",  "NOICEUSDT", 100,  95, 110, 120),
      Sig("SELL", "BTCUSDT",   120, 140,  89,  80),
      Sig("BUY",  "BTCUSDT",    99,  98,  97,  97),
      Sig("BUY",  "ETHUSDT",   100, 110,  84, 120),
      Sig("BUY",  "NOICEUSDT", 100,  95, 105, 120),
      Sig("CLOSE_LONG",  "NOICEUSDT", 110, 0, 0, 0),
      Sig("SELL", "ETHUSDT",     0,  10,  20,  30) }

\* What a strategy that does not validate its output may return: a signal
\* that opens, then signals with a price of zero, a negative price, and a
\* stop-loss equal to the entry price.
InvalidMenu ==
    { Sig("BUY",  "NOICEUSDT", 100,   95, 110, 120),
      Sig("SELL", "ETHUSDT",     0,   10,  20,  30),
      Sig("BUY",  "BTCUSDT",  -100, -110, -80, -70),
      Sig("BUY",  "ETHUSDT",   100,  100, 110, 120),
      Sig("SELL", "BTCUSDT",   120,  120, 100,  90) }

NoSignal == [signal_type |-> "NONE"]
NoPosition == [symbol |-> "NONE"]
\* a trade callback returns or raises
CallbackKinds == {"returns", "raises"}
\* no drawdown was reported
NoDrawdown == [num |-> 0, den |-> 0]
\* no call of calculate_position_size
NoSizing == [raised |-> FALSE, quantity |-> 0]

\* BaseStrategy.__init__: no candle, no signal, last_signal_time None (-1)
NoTime == 0 - 1
NewStrategy ==
    [data_buffer |-> 0, signal_history |-> <<>>, last_signal_time |-> NoTime]
\* what _generate_signal can return: None, a HOLD of confidence 0, or a BUY
\* of some confidence in hundredths
GeneratedNone == [signal_type |-> "NONE", confidence |-> 0]
Generated ==
    { GeneratedNone, [signal_type |-> "HOLD", confidence |-> 0] }
    \cup { [signal_type |-> "BUY", confidence |-> c] : c \in {60, 74, 75, 90} }
\* before the first call of update
NoUpdate == [fed |-> 0, returned |-> <<>>, at |-> 0, previous_at |-> NoTime]

\* Portfolio(cash_balance=initial_balance): no position, no trade
NewPortfolio(cash_balance) ==
    [cash_balance |-> cash_balance, positions |-> <<>>, trade_history |-> <<>>]
\* a stop_loss or take_profit of None
NoLevel == 0 - 1
\* portfolio.Position(symbol, position_type, quantity, entry_price,
\* current_price, stop_loss, take_profit)
PortfolioPosition(symbol, position_type, quantity, entry_price, sl, tp) ==
    [symbol |-> symbol, position_type |-> position_type,
     quantity |-> quantity, entry_price |-> entry_price,
     current_price |-> entry_price, stop_loss |-> sl, take_profit |-> tp]
\* the positions handed to Portfolio.add_position and the exit prices
PortfolioSymbols == {"BTC/USDT", "ETH/USDT"}
PortfolioPositions ==
    { PortfolioPosition(symbol, position_type, quantity, entry_price,
                        NoLevel, NoLevel) :
        symbol \in PortfolioSymbols, position_type \in {"long", "short"},
        quantity \in {1, 3}, entry_price \in {50, 100} }
ExitPrices == {80, 100, 120}
\* before the first operation of the Portfolio; returned is the realized
\* P&L, none for None; added counts the calls of add_position
NoPortfolioOperation ==
    [op |-> "none", symbol |-> "", cash_before |-> 0, returned |-> <<>>,
     previous |-> [op |-> "none", symbol |-> "", cash_before |-> 0],
     added |-> 0]

\* BaseBot.__init__: not running, no stop requested; run() and stop() not
\* called yet (pc "idle"); signal is the signal execute_trade was called with
NoBotSignal == [signal_type |-> "none"]
NewBot ==
    [running |-> FALSE, stop_requested |-> FALSE, status |-> "idle",
     balance |-> InitialBalance, total_trades |-> 0,
     run_pc |-> "idle", stop_pc |-> "idle", timeout |-> 0,
     signal |-> NoBotSignal]
\* the signals analyze_market can return and the prices get_market_data can
\* report for the bot's symbol
BotSymbol == "BTC/USDT"
BotSignals ==
    { [signal_type |-> "buy", symbol |-> BotSymbol, quantity |-> 1,
       entry_price |-> 100, stop_loss |-> 80, take_profit |-> 120],
      [signal_type |-> "sell", symbol |-> BotSymbol, quantity |-> 1,
       entry_price |-> 100, stop_loss |-> NoLevel, take_profit |-> NoLevel] }
MarketPrices == {80, 100, 120}

\* constructor parameters and signals calculate_position_size is called on:
\* positive prices, stops below, at and above the entry
\* prices update_position is called with from outside the engine
CallPrices == {95, 110}
SizingConfigs ==
    { Cfg(10000, 2, 1), Cfg(2500, 2, 1), Cfg(2500, 12, 2), Cfg(777, 3, 1),
      Cfg(1, 1, 2) }
SizingSignals ==
    { Sig("BUY", "NOICEUSDT", p, sl, 0, 0) :
        p \in {1, 50, 100, 120}, sl \in {1, 49, 95, 98, 100, 110, 140} }

\* latest_ticker before the first ticker
NoTicker == [price |-> 0, bid |-> 0]

\* the primary and the backup Feed Client
Clients == {"mexc", "binance"}
\* self.websocket = None
NoWebsocket == [state |-> "none", sent |-> <<>>]
\* a Feed Client after __init__, connect() not yet called
NewClient ==
    [pc |-> "idle", running |-> FALSE, websocket |-> NoWebsocket,
     reconnect_delay |-> 0, failures |-> 0, connected |-> 0, drops |-> 0,
     stopped |-> FALSE, late_attempt |-> FALSE]
\* a message of an exchange: whether it is JSON, its channel, the state of
\* the fields the parser indexes and of those it reads with a default
\* ("present", "missing", "non_numeric"), and its open time or price
Payload(json, channel, required, optional, value) ==
    [json |-> json, channel |-> channel, required |-> required,
     optional |-> optional, value |-> value]
NoPayload == Payload(FALSE, "none", "missing", "missing", 0)
Payloads ==
    { Payload(FALSE, "none", "missing", "missing", 0),
      Payload(TRUE, "other", "present", "present", 0),
      Payload(TRUE, "kline", "present", "present", 1),
      Payload(TRUE, "kline", "present", "present", 2),
      Payload(TRUE, "kline", "missing", "present", 1),
      Payload(TRUE, "kline", "non_numeric", "present", 1),
      Payload(TRUE, "ticker", "present", "present", 95),
      Payload(TRUE, "ticker", "missing", "present", 95),
      Payload(TRUE, "ticker", "non_numeric", "present", 95),
      Payload(TRUE, "ticker", "present", "missing", 95),
      Payload(TRUE, "ticker", "present", "non_numeric", 95) }
\* what an exchange sends when nothing trades: subscription
\* acknowledgements and pongs, JSON of no data channel
Acknowledgements == { Payload(TRUE, "other", "present", "present", 0) }
\* before the first step of a Feed Client
NoClientStep ==
    [client |-> "none", step |-> "none", payload |-> NoPayload,
     delivered |-> "none"]
\* the counts get_latest_ohlcv is called with
Counts == {0, 1, 2, 1000, 1001}
\* before the first operation of the Market Data Handler
NoFeedOperation ==
    [handler |-> "none", record |-> 0, delivered |-> <<>>, escaped |-> FALSE,
     count |-> 0, returned |-> <<>>, fresh |-> TRUE]

\* ------------------------------------------- positions: Dict[str, Position]
\* A Python dict keeps insertion order; the model keeps the positions as the
\* sequence of the dict's values in that order, keyed by their symbol field.
Keys(ps) == [i \in 1..Len(ps) |-> ps[i].symbol]
Has(ps, s) == \E i \in 1..Len(ps) : ps[i].symbol = s
Get(ps, s) == ps[CHOOSE i \in 1..Len(ps) : ps[i].symbol = s]
Put(ps, p) ==
    IF Has(ps, p.symbol)
    THEN [i \in 1..Len(ps) |-> IF ps[i].symbol = p.symbol THEN p ELSE ps[i]]
    ELSE Append(ps, p)
Del(ps, s) == SelectSeq(ps, LAMBDA p : p.symbol # s)

\* ------------------------------------------------------------ Position
\* Position(...) with __post_init__: remaining_quantity = quantity
NewPosition(signal, side, quantity, now) ==
    [symbol |-> signal.symbol, side |-> side,
     entry_price |-> signal.price, quantity |-> quantity,
     stop_loss |-> signal.stop_loss,
     take_profit_1 |-> signal.take_profit_1,
     take_profit_2 |-> signal.take_profit_2,
     current_price |-> signal.price,
     status |-> "OPEN", tp1_hit |-> FALSE, tp2_hit |-> FALSE,
     remaining_quantity |-> quantity,
     opened_at |-> now,
     unrealized_pnl |-> 0, realized_pnl |-> 0]

\* LONG: price - entry; SHORT: entry - price
PriceDiff(p, price) ==
    IF p.side = "LONG" THEN price - p.entry_price ELSE p.entry_price - price

UpdatePrice(p, new_price) ==
    [p EXCEPT !.current_price = new_price,
              !.unrealized_pnl = PriceDiff(p, new_price) * p.remaining_quantity]

GetTotalPnl(p) == p.realized_pnl + p.unrealized_pnl

ShouldStopLoss(p) ==
    IF p.side = "LONG" THEN p.current_price <= p.stop_loss
    ELSE p.current_price >= p.stop_loss

ShouldTakeProfit1(p) ==
    IF p.side = "LONG" THEN p.current_price >= p.take_profit_1
    ELSE p.current_price <= p.take_profit_1

ShouldTakeProfit2(p) ==
    IF p.side = "LONG" THEN p.current_price >= p.take_profit_2
    ELSE p.current_price <= p.take_profit_2

\* --------------------------------------------------------- RiskManager
\* The ledger L is the record of the RiskManager's fields.

\* total_risk / current_capital as a fraction [num, den]; 0.0 when capital is 0
GetPortfolioRisk(L) ==
    LET RECURSIVE Total(_)
        Total(i) ==
            IF i = 0 THEN 0
            ELSE Total(i - 1)
                 + Abs(L.positions[i].entry_price - L.positions[i].stop_loss)
                   * L.positions[i].remaining_quantity
    IN  IF L.current_capital = 0 THEN [num |-> 0, den |-> 1]
        ELSE [num |-> Total(Len(L.positions)), den |-> L.current_capital]

\* f >= pct / 100, for a fraction f with den # 0
FracAtLeastPct(f, pct) ==
    IF f.den > 0 THEN f.num * 100 >= pct * f.den
    ELSE f.num * 100 <= pct * f.den

\* get_current_drawdown that stores the capital it finds as the peak
GetCurrentDrawdownResetsPeak(L) ==
    IF L.max_historical_capital = 0
    THEN [value |-> [num |-> 0, den |-> 1], ledger |-> L]
    ELSE LET peak == L.current_capital
             down == L.max_historical_capital - L.current_capital
         IN  [value  |-> IF down >= 0
                         THEN [num |-> down, den |-> L.max_historical_capital]
                         ELSE [num |-> 0, den |-> 1],
              ledger |-> [L EXCEPT !.max_historical_capital = peak]]

\* get_current_drawdown: raises the stored peak, then returns
\* max(0, (peak - capital) / peak); [value |-> fraction, ledger |-> L']
GetCurrentDrawdown(L) ==
    IF L.max_historical_capital = 0
    THEN [value |-> [num |-> 0, den |-> 1], ledger |-> L]
    ELSE LET peak == Max(L.max_historical_capital, L.current_capital)
             down == peak - L.current_capital
         IN  [value  |-> IF (down >= 0) = (peak > 0)
                         THEN [num |-> down, den |-> peak]
                         ELSE [num |-> 0, den |-> 1],
              ledger |-> [L EXCEPT !.max_historical_capital = peak]]

\* reward / risk < min_risk_reward; 0.0 when risk is 0
RiskRewardTooLow(signal) ==
    LET risk   == Abs(signal.price - signal.stop_loss)
        reward == Abs(signal.take_profit_1 - signal.price)
    IN  IF risk = 0 THEN 0 < MinRiskRewardTenths
        ELSE reward * 10 < MinRiskRewardTenths * risk

\* can_open_position without the check that the symbol has no open position
CanOpenPositionAnySymbol(L, signal) ==
    IF Len(L.positions) >= L.max_positions
    THEN [ok |-> FALSE, check |-> 1, ledger |-> L]
    ELSE IF FracAtLeastPct(GetPortfolioRisk(L), MaxPortfolioRiskPct)
    THEN [ok |-> FALSE, check |-> 3, ledger |-> L]
    ELSE LET dd == GetCurrentDrawdown(L)
         IN  IF FracAtLeastPct(dd.value, MaxDrawdownPct)
             THEN [ok |-> FALSE, check |-> 4, ledger |-> dd.ledger]
             ELSE IF RiskRewardTooLow(signal)
             THEN [ok |-> FALSE, check |-> 5, ledger |-> dd.ledger]
             ELSE [ok |-> TRUE, check |-> 0, ledger |-> dd.ledger]

\* can_open_position: [ok, check, ledger]; check is the number of the check
\* that failed (0 when none did).  The drawdown check writes the peak.
CanOpenPosition(L, signal) ==
    IF Len(L.positions) >= L.max_positions
    THEN [ok |-> FALSE, check |-> 1, ledger |-> L]
    ELSE IF Has(L.positions, signal.symbol)
    THEN [ok |-> FALSE, check |-> 2, ledger |-> L]
    ELSE IF FracAtLeastPct(GetPortfolioRisk(L), MaxPortfolioRiskPct)
    THEN [ok |-> FALSE, check |-> 3, ledger |-> L]
    ELSE LET dd == GetCurrentDrawdown(L)
         IN  IF FracAtLeastPct(dd.value, MaxDrawdownPct)
             THEN [ok |-> FALSE, check |-> 4, ledger |-> dd.ledger]
             ELSE IF RiskRewardTooLow(signal)
             THEN [ok |-> FALSE, check |-> 5, ledger |-> dd.ledger]
             ELSE [ok |-> TRUE, check |-> 0, ledger |-> dd.ledger]

\* calculate_position_size: [raised, quantity].  position_size is
\* capital * risk% / price_diff, max_affordable is capital * 95% / price
\* (a ZeroDivisionError when price is 0); the smaller one is rounded.
CalculatePositionSize(L, signal) ==
    LET cap        == L.current_capital
        price_diff == Abs(signal.price - signal.stop_loss)
        \* risk% / price_diff <= 95% / price
        coefLE == signal.price > 0
                  /\ L.max_risk_per_trade * signal.price
                        <= AffordablePct * price_diff
        coefGE == signal.price < 0
                  \/ L.max_risk_per_trade * signal.price
                        >= AffordablePct * price_diff
        bySize == IF cap > 0 THEN coefLE ELSE IF cap = 0 THEN TRUE ELSE coefGE
    IN  IF price_diff = 0 THEN [raised |-> FALSE, quantity |-> 0]
        ELSE IF signal.price = 0 THEN [raised |-> TRUE, quantity |-> 0]
        ELSE IF bySize
        THEN [raised |-> FALSE,
              quantity |-> RoundToGrid(cap, L.max_risk_per_trade,
                                       100 * price_diff)]
        ELSE IF signal.price > 0
        THEN [raised |-> FALSE,
              quantity |-> RoundToGrid(cap, AffordablePct, 100 * signal.price)]
        ELSE [raised |-> FALSE,
              quantity |-> RoundToGrid(-cap, AffordablePct,
                                       100 * (-signal.price))]

\* open_position: positions[symbol] = Position(...); total_trades += 1
OpenPosition(L, signal, quantity) ==
    LET side == IF signal.signal_type = "BUY" THEN "LONG" ELSE "SHORT"
        position == NewPosition(signal, side, quantity, L.total_trades + 1)
    IN  [ledger   |-> [L EXCEPT !.positions = Put(L.positions, position),
                                !.total_trades = L.total_trades + 1],
         position |-> position]

\* update_position without the tp1_hit / tp2_hit guards on the targets
ExitActionNoTpGuard(p) ==
    IF ShouldStopLoss(p) THEN "stop_loss"
    ELSE IF ShouldTakeProfit2(p) THEN "take_profit_2"
    ELSE IF ShouldTakeProfit1(p) THEN "take_profit_1"
    ELSE "none"

\* update_position with the take-profit checks ahead of the stop-loss check
ExitActionTpFirst(p) ==
    IF ~p.tp1_hit /\ ShouldTakeProfit1(p) THEN "take_profit_1"
    ELSE IF p.tp1_hit /\ ~p.tp2_hit /\ ShouldTakeProfit2(p) THEN "take_profit_2"
    ELSE IF ShouldStopLoss(p) THEN "stop_loss"
    ELSE "none"

\* the exit update_position returns for a position whose price is updated
ExitAction(p) ==
    IF ShouldStopLoss(p) THEN "stop_loss"
    ELSE IF ~p.tp1_hit /\ ShouldTakeProfit1(p) THEN "take_profit_1"
    ELSE IF p.tp1_hit /\ ~p.tp2_hit /\ ShouldTakeProfit2(p) THEN "take_profit_2"
    ELSE "none"

\* update_position that marks the capital to market: the unrealized P&L of
\* the updated position is added to current_capital
UpdatePositionMarked(L, symbol, current_price) ==
    IF ~Has(L.positions, symbol) THEN [ledger |-> L, action |-> "none"]
    ELSE LET position == UpdatePrice(Get(L.positions, symbol), current_price)
         IN  [ledger |-> [L EXCEPT !.positions = Put(L.positions, position),
                                   !.current_capital =
                                       L.current_capital
                                       + position.unrealized_pnl],
              action |-> ExitAction(position)]

\* update_position: [ledger, action]
UpdatePosition(L, symbol, current_price) ==
    IF ~Has(L.positions, symbol) THEN [ledger |-> L, action |-> "none"]
    ELSE LET position == UpdatePrice(Get(L.positions, symbol), current_price)
         IN  [ledger |-> [L EXCEPT !.positions = Put(L.positions, position)],
              action |-> ExitAction(position)]

\* remaining_quantity <= 0.001
AlmostZero(quantity) == quantity * AlmostZeroPerOne <= QtyOne

\* the position after close_position's field updates; halves is
\* partial_close in halves (2 is 1.0, 1 is 0.5)
ClosedPortion(p, reason, halves) ==
    LET close_quantity == (p.remaining_quantity * halves) \div 2
        realized_pnl   == PriceDiff(p, p.current_price) * close_quantity
        q == [p EXCEPT !.realized_pnl = p.realized_pnl + realized_pnl,
                       !.remaining_quantity =
                           p.remaining_quantity - close_quantity]
        m == IF reason = "take_profit_1"
             THEN [q EXCEPT !.tp1_hit = TRUE, !.status = "PARTIAL",
                            !.stop_loss = q.entry_price]
             ELSE IF reason = "take_profit_2"
             THEN [q EXCEPT !.tp2_hit = TRUE, !.status = "CLOSED"]
             ELSE IF halves >= 2 THEN [q EXCEPT !.status = "CLOSED"]
             ELSE q
    IN  [position |-> IF AlmostZero(m.remaining_quantity)
                      THEN [m EXCEPT !.status = "CLOSED"] ELSE m,
         realized_pnl |-> realized_pnl]

\* close_position that records a fully closed position in the history but
\* leaves it in the open set
ClosePositionKeepsOpen(L, symbol, reason, halves) ==
    IF ~Has(L.positions, symbol) THEN [ledger |-> L, closed |-> NoPosition]
    ELSE LET c == ClosedPortion(Get(L.positions, symbol), reason, halves)
             p == c.position
         IN  [ledger |->
                [L EXCEPT
                   !.current_capital = L.current_capital + c.realized_pnl,
                   !.winning_trades = IF c.realized_pnl > 0
                                      THEN L.winning_trades + 1
                                      ELSE L.winning_trades,
                   !.positions = Put(L.positions, p),
                   !.position_history =
                       IF AlmostZero(p.remaining_quantity)
                       THEN Append(L.position_history, p)
                       ELSE L.position_history],
              closed |-> p]

\* close_position that appends a fully closed position to the history twice
ClosePositionAppendsTwice(L, symbol, reason, halves) ==
    IF ~Has(L.positions, symbol) THEN [ledger |-> L, closed |-> NoPosition]
    ELSE LET c == ClosedPortion(Get(L.positions, symbol), reason, halves)
             p == c.position
             full == AlmostZero(p.remaining_quantity)
         IN  [ledger |->
                [L EXCEPT
                   !.current_capital = L.current_capital + c.realized_pnl,
                   !.winning_trades = IF c.realized_pnl > 0
                                      THEN L.winning_trades + 1
                                      ELSE L.winning_trades,
                   !.positions = IF full THEN Del(L.positions, symbol)
                                 ELSE Put(L.positions, p),
                   !.position_history = IF full
                                        THEN L.position_history \o <<p, p>>
                                        ELSE L.position_history],
              closed |-> p]

\* close_position: [ledger, closed]; closed is NoPosition for the None return
ClosePosition(L, symbol, reason, halves) ==
    IF ~Has(L.positions, symbol) THEN [ledger |-> L, closed |-> NoPosition]
    ELSE LET c == ClosedPortion(Get(L.positions, symbol), reason, halves)
             p == c.position
             full == AlmostZero(p.remaining_quantity)
         IN  [ledger |->
                [L EXCEPT
                   !.current_capital = L.current_capital + c.realized_pnl,
                   !.winning_trades = IF c.realized_pnl > 0
                                      THEN L.winning_trades + 1
                                      ELSE L.winning_trades,
                   !.positions = IF full THEN Del(L.positions, symbol)
                                 ELSE Put(L.positions, p),
                   !.position_history = IF full
                                        THEN Append(L.position_history, p)
                                        ELSE L.position_history],
              closed |-> p]

\* -------------------------------------------------------- TradingEngine
\* The world W is the ledger's fields together with the engine's
\* trades_executed, the lifecycle events delivered to the trade callbacks
\* by the handler in progress, and the log of the handler's calls into the
\* Risk Manager.

\* one call into the Risk Manager: what it returned and the position it
\* returned or left behind (NoPosition for none)
Logged(W, op, symbol, ret, position) ==
    [W EXCEPT !.calls = Append(W.calls, [op |-> op, symbol |-> symbol,
                                         ret |-> ret, position |-> position]),
              !.capital_high = Max(W.capital_high, W.current_capital)]

PositionOf(W, symbol) ==
    IF Has(W.positions, symbol) THEN Get(W.positions, symbol) ELSE NoPosition

\* _notify_trade_callbacks without the try/except around each callback: the
\* first callback that raises ends the delivery of the event
NotifyTradeCallbacksUnguarded(W, event) ==
    LET raisers == { i \in 1..Len(W.trade_callbacks) :
                        W.trade_callbacks[i] = "raises" }
        reached == IF raisers = {} THEN Len(W.trade_callbacks)
                   ELSE CHOOSE i \in raisers : \A j \in raisers : i <= j
    IN  [W EXCEPT !.events = Append(W.events, event),
                  !.delivered = W.delivered \o
                      [i \in 1..reached |->
                          [callback |-> i, action |-> event.action,
                           symbol |-> event.symbol,
                           raised |-> W.trade_callbacks[i] = "raises"]]]

\* _notify_trade_callbacks: the callbacks are called in registration order,
\* each inside its own try/except; a delivery records the callback's index,
\* the event and whether the callback raised
NotifyTradeCallbacks(W, event) ==
    [W EXCEPT !.events = Append(W.events, event),
              !.delivered = W.delivered \o
                  [i \in 1..Len(W.trade_callbacks) |->
                      [callback |-> i, action |-> event.action,
                       symbol |-> event.symbol,
                       raised |-> W.trade_callbacks[i] = "raises"]]]

\* _execute_trade
ExecuteTrade(W, signal, quantity) ==
    LET o  == OpenPosition(W, signal, quantity)
        W1 == Logged(o.ledger, "open_position", signal.symbol, "position",
                     o.position)
        W2 == [W1 EXCEPT !.trades_executed = W1.trades_executed + 1]
    IN  NotifyTradeCallbacks(W2, [action |-> "open_position",
                                  symbol |-> signal.symbol,
                                  position |-> o.position])

\* _close_position: a full close, no lifecycle event
EngineClosePosition(W, symbol, reason) ==
    IF Has(W.positions, symbol)
    THEN LET c == ClosePosition(W, symbol, reason, 2)
         IN  Logged(c.ledger, "close_position", symbol, reason, c.closed)
    ELSE W

\* _process_signal without the return after the rejection warning: the
\* rejected signal is sized and executed all the same
ProcessSignalFallsThrough(W, signal) ==
    IF signal.signal_type \in {"BUY", "SELL"}
    THEN LET g  == CanOpenPosition(W, signal)
             sz == CalculatePositionSize(g.ledger, signal)
             outcome == IF g.ok THEN "opened" ELSE "rejected"
         IN  IF sz.raised
             THEN [world |-> g.ledger, outcome |-> "error", check |-> g.check]
             ELSE IF sz.quantity <= 0
             THEN [world |-> g.ledger,
                   outcome |-> IF g.ok THEN "invalid_size" ELSE "rejected",
                   check |-> g.check]
             ELSE [world |-> ExecuteTrade(g.ledger, signal, sz.quantity),
                   outcome |-> outcome, check |-> g.check]
    ELSE IF signal.signal_type \in {"CLOSE_LONG", "CLOSE_SHORT"}
    THEN [world |-> EngineClosePosition(W, signal.symbol, "manual_close"),
          outcome |-> "manual_close", check |-> 0]
    ELSE [world |-> W, outcome |-> "ignored", check |-> 0]

\* _process_signal: [world, outcome, check]
ProcessSignal(W, signal) ==
    IF signal.signal_type \in {"BUY", "SELL"}
    THEN LET g  == CanOpenPosition(W, signal)
             sz == CalculatePositionSize(g.ledger, signal)
         IN  IF ~g.ok
             THEN [world |-> g.ledger, outcome |-> "rejected", check |-> g.check]
             ELSE IF sz.raised
             THEN [world |-> g.ledger, outcome |-> "error", check |-> 0]
             ELSE IF sz.quantity <= 0
             THEN [world |-> g.ledger, outcome |-> "invalid_size", check |-> 0]
             ELSE [world |-> ExecuteTrade(g.ledger, signal, sz.quantity),
                   outcome |-> "opened", check |-> 0]
    ELSE IF signal.signal_type \in {"CLOSE_LONG", "CLOSE_SHORT"}
    THEN [world |-> EngineClosePosition(W, signal.symbol, "manual_close"),
          outcome |-> "manual_close", check |-> 0]
    ELSE [world |-> W, outcome |-> "ignored", check |-> 0]

\* _handle_position_exit
HandlePositionExit(W, symbol, exit_action) ==
    LET halves == IF exit_action = "take_profit_1" THEN 1 ELSE 2
        c  == ClosePosition(W, symbol, exit_action, halves)
        W1 == Logged(c.ledger, "close_position", symbol, exit_action, c.closed)
    IN  IF c.closed # NoPosition
        THEN NotifyTradeCallbacks(W1, [action |-> exit_action,
                                       symbol |-> symbol,
                                       position |-> c.closed])
        ELSE W1

\* _update_positions: for symbol in list(positions.keys())
RECURSIVE UpdateEach(_, _, _, _)
UpdateEach(W, symbols_to_process, i, current_price) ==
    IF i > Len(symbols_to_process) THEN W
    ELSE LET symbol == symbols_to_process[i]
             u  == UpdatePosition(W, symbol, current_price)
             W1 == Logged(u.ledger, "update_position", symbol, u.action,
                          PositionOf(u.ledger, symbol))
             W2 == IF u.action # "none"
                   THEN HandlePositionExit(W1, symbol, u.action)
                   ELSE W1
         IN  UpdateEach(W2, symbols_to_process, i + 1, current_price)

UpdatePositions(W, current_price) ==
    UpdateEach(W, Keys(W.positions), 1, current_price)

\* --------------------------------------------------------------- state
VARIABLES
    positions,              \* RiskManager.positions, in insertion order
    position_history,       \* RiskManager.position_history
    initial_capital,        \* RiskManager.initial_capital
    current_capital,        \* RiskManager.current_capital
    max_historical_capital, \* RiskManager.max_historical_capital
    max_risk_per_trade,     \* RiskManager.max_risk_per_trade, in percent
    max_positions,          \* RiskManager.max_positions
    total_trades,           \* RiskManager.total_trades
    winning_trades,         \* RiskManager.winning_trades
    is_trading_enabled,     \* TradingEngine.is_trading_enabled
    signals_generated,      \* TradingEngine.signals_generated
    trades_executed,        \* TradingEngine.trades_executed
    last_signal,            \* TradingEngine.last_signal
    trade_callbacks,        \* TradingEngine.trade_callbacks, what each does
    capital_high,           \* the highest current_capital so far (observation)
    ohlcv_buffer,           \* MarketDataHandler.ohlcv_buffer
    candles_received,       \* primary candles received so far (observation)
    data_callbacks,         \* MarketDataHandler.data_callbacks, what each does
    ticker_callbacks,       \* MarketDataHandler.ticker_callbacks
    latest_ticker,          \* MarketDataHandler.latest_ticker
    feed_last,              \* what the last handler operation did (observation)
    clients,                \* the two Feed Clients: fields and place in connect()
    received,               \* candles the primary client delivered (observation)
    stream_last,            \* what the last Feed Client step did (observation)
    strategy,               \* a NOICEStrategy: buffer length, history, last time
    clock,                  \* datetime.now(), in seconds
    strategy_last,          \* what the last update call did (observation)
    portfolio,              \* a Portfolio: cash_balance, positions, trade_history
    portfolio_last,         \* the last two Portfolio operations (observation)
    bot,                    \* a BaseBot: flags, and where run() and stop() are
    last                    \* what the last handler did (observation only)

window_vars == <<ohlcv_buffer, candles_received>>

consumer_vars == <<data_callbacks, ticker_callbacks>>

handler_vars == <<window_vars, consumer_vars, latest_ticker, feed_last>>

client_vars == <<clients, received, stream_last>>

feed_vars == <<handler_vars, client_vars>>

\* the components driven on their own, which no step of the engine, the
\* Market Data Handler or a Feed Client touches
strategy_vars == <<strategy, clock, strategy_last>>

portfolio_vars == <<portfolio, portfolio_last>>

standalone_vars == <<strategy_vars, portfolio_vars, bot>>

\* the Risk Manager's ledger; the frame carries the standalone components
ledger_vars == <<positions, position_history, initial_capital, current_capital,
                 max_historical_capital, max_risk_per_trade, max_positions,
                 total_trades, winning_trades, trades_executed, capital_high,
                 standalone_vars>>

vars == <<positions, position_history, initial_capital, current_capital,
          max_historical_capital, max_risk_per_trade, max_positions,
          total_trades,
          winning_trades, is_trading_enabled, signals_generated,
          trades_executed, last_signal, trade_callbacks, capital_high,
          ohlcv_buffer, candles_received, data_callbacks, ticker_callbacks,
          latest_ticker, feed_last, clients, received, stream_last, last,
          strategy, clock, strategy_last, portfolio, portfolio_last, bot>>

\* the world a handler starts from
World ==
    [positions |-> positions, position_history |-> position_history,
     current_capital |-> current_capital,
     max_historical_capital |-> max_historical_capital,
     max_risk_per_trade |-> max_risk_per_trade,
     max_positions |-> max_positions,
     total_trades |-> total_trades, winning_trades |-> winning_trades,
     trades_executed |-> trades_executed,
     trade_callbacks |-> trade_callbacks,
     capital_high |-> capital_high,
     events |-> <<>>, delivered |-> <<>>, calls |-> <<>>]

\* the ledger fields a rejected signal must leave alone
Snapshot(W) ==
    [positions |-> W.positions, current_capital |-> W.current_capital,
     total_trades |-> W.total_trades, trades_executed |-> W.trades_executed]

Commit(W) ==
    /\ positions' = W.positions
    /\ position_history' = W.position_history
    /\ current_capital' = W.current_capital
    /\ max_historical_capital' = W.max_historical_capital
    /\ total_trades' = W.total_trades
    /\ winning_trades' = W.winning_trades
    /\ trades_executed' = W.trades_executed
    /\ capital_high' = W.capital_high
    /\ UNCHANGED <<initial_capital, max_risk_per_trade, max_positions,
                   standalone_vars>>

\* the signal the handler processed, _process_signal's outcome and the failed
\* admission check, whether _process_signal left the ledger as it found it,
\* the calls into the Risk Manager, the events emitted and their deliveries,
\* the value returned
Did(signal, outcome, check, Wmid, W, result) ==
    [handler |-> "none", strategy_updated |-> FALSE,
     signal |-> signal, outcome |-> outcome,
     check |-> check, mid_same |-> (Snapshot(Wmid) = Snapshot(World)),
     calls |-> W.calls, events |-> W.events, delivered |-> W.delivered,
     result |-> result, drawdown |-> NoDrawdown, sized |-> NoSizing]

\* TradingEngine.__init__ / RiskManager.__init__
InitWith(config) ==
    /\ initial_capital = Money(config.capital)
    /\ current_capital = Money(config.capital)
    /\ max_historical_capital = Money(config.capital)
    /\ capital_high = Money(config.capital)
    /\ max_risk_per_trade = config.risk
    /\ max_positions = config.max_positions
    /\ positions = <<>>
    /\ position_history = <<>>
    /\ total_trades = 0
    /\ winning_trades = 0
    /\ is_trading_enabled = TRUE
    /\ signals_generated = 0
    /\ trades_executed = 0
    /\ last_signal = NoSignal
    /\ trade_callbacks = <<>>
    /\ ohlcv_buffer = <<>>
    /\ candles_received = 0
    /\ data_callbacks = <<>>
    /\ ticker_callbacks = <<>>
    /\ latest_ticker = NoTicker
    /\ feed_last = NoFeedOperation
    /\ clients = [c \in Clients |-> NewClient]
    /\ received = <<>>
    /\ stream_last = NoClientStep
    /\ strategy = NewStrategy
    /\ clock = 0
    /\ strategy_last = NoUpdate
    /\ portfolio = NewPortfolio(InitialBalance)
    /\ portfolio_last = NoPortfolioOperation
    /\ bot = NewBot
    /\ last = [handler |-> "none", strategy_updated |-> FALSE,
               signal |-> NoSignal, outcome |-> "none",
               check |-> 0, mid_same |-> TRUE, calls |-> <<>>,
               events |-> <<>>, delivered |-> <<>>, result |-> FALSE,
               drawdown |-> NoDrawdown, sized |-> NoSizing]

Init == \E config \in Configs : InitWith(config)

\* _on_market_data for a candle the strategy returns no signal for
OnMarketDataNoSignal(close) ==
    /\ is_trading_enabled
    /\ LET W == UpdatePositions(World, close)
       IN  /\ Commit(W)
           /\ last' = [Did(NoSignal, "none", 0, World, W, FALSE)
                         EXCEPT !.handler = "candle",
                                !.strategy_updated = TRUE]
    /\ UNCHANGED <<feed_vars, is_trading_enabled, signals_generated, last_signal,
                   trade_callbacks>>

\* _on_market_data that returns after a signal that opened or closed nothing
OnMarketDataSignalReturnsEarly(signal) ==
    /\ is_trading_enabled
    /\ signals_generated < MaxSignals
    /\ signals_generated' = signals_generated + 1
    /\ last_signal' = signal
    /\ LET ps == ProcessSignal(World, signal)
           W  == IF ps.outcome \in {"opened", "manual_close"}
                 THEN UpdatePositions(ps.world, signal.price)
                 ELSE ps.world
       IN  /\ Commit(W)
           /\ last' = [Did(signal, ps.outcome, ps.check, ps.world, W, FALSE)
                         EXCEPT !.handler = "candle",
                                !.strategy_updated = TRUE]
    /\ UNCHANGED <<feed_vars, is_trading_enabled, trade_callbacks>>

\* _on_market_data for a candle the strategy returns `signal` for
OnMarketDataSignal(signal) ==
    /\ is_trading_enabled
    /\ signals_generated < MaxSignals
    /\ signals_generated' = signals_generated + 1
    /\ last_signal' = signal
    /\ LET ps == ProcessSignal(World, signal)
           W  == UpdatePositions(ps.world, signal.price)
       IN  /\ Commit(W)
           /\ last' = [Did(signal, ps.outcome, ps.check, ps.world, W, FALSE)
                         EXCEPT !.handler = "candle",
                                !.strategy_updated = TRUE]
    /\ UNCHANGED <<feed_vars, is_trading_enabled, trade_callbacks>>

\* _on_market_data while trading is disabled: returns at once
OnMarketDataDisabled(close) ==
    /\ ~is_trading_enabled
    /\ last' = [Did(NoSignal, "disabled", 0, World, World, FALSE)
                  EXCEPT !.handler = "candle"]
    /\ UNCHANGED <<feed_vars, ledger_vars, is_trading_enabled, signals_generated,
                   last_signal, trade_callbacks>>

\* _on_ticker_data that hands the ticker's price to the candle path: the
\* strategy is asked and its signal processed
OnTickerDataThroughStrategy(price) ==
    /\ \E signal \in SignalMenu :
         /\ signals_generated < MaxSignals
         /\ signals_generated' = signals_generated + 1
         /\ last_signal' = signal
         /\ LET ps == ProcessSignal(World, signal)
                W  == UpdatePositions(ps.world, price)
            IN  /\ Commit(W)
                /\ last' = [Did(signal, ps.outcome, ps.check, ps.world, W,
                                FALSE)
                              EXCEPT !.handler = "ticker",
                                     !.strategy_updated = TRUE]
    /\ UNCHANGED <<feed_vars, is_trading_enabled, trade_callbacks>>

\* _on_ticker_data
OnTickerData(price) ==
    /\ LET W == UpdatePositions(World, price)
       IN  /\ Commit(W)
           /\ last' = [Did(NoSignal, "none", 0, World, W, FALSE)
                         EXCEPT !.handler = "ticker"]
    /\ UNCHANGED <<feed_vars, is_trading_enabled, signals_generated, last_signal,
                   trade_callbacks>>

\* force_close_position without the membership test: _close_position is
\* called and True returned whether or not the symbol has a position
ForceClosePositionUnchecked(symbol) ==
    /\ LET c == ClosePosition(World, symbol, "force_close", 2)
           W == Logged(c.ledger, "close_position", symbol, "force_close",
                       c.closed)
       IN  /\ Commit(W)
           /\ last' = [Did(NoSignal, "none", 0, World, W, TRUE)
                         EXCEPT !.handler = "force_close"]
    /\ UNCHANGED <<feed_vars, is_trading_enabled, signals_generated, last_signal,
                   trade_callbacks>>

\* force_close_position
ForceClosePosition(symbol) ==
    /\ LET W == EngineClosePosition(World, symbol, "force_close")
       IN  /\ Commit(W)
           /\ last' = [Did(NoSignal, "none", 0, World, W,
                           Has(positions, symbol))
                         EXCEPT !.handler = "force_close"]
    /\ UNCHANGED <<feed_vars, is_trading_enabled, signals_generated, last_signal,
                   trade_callbacks>>

\* enable_trading / disable_trading
SetTrading(enabled) ==
    /\ is_trading_enabled # enabled
    /\ is_trading_enabled' = enabled
    /\ last' = [Did(NoSignal, "none", 0, World, World, FALSE)
                  EXCEPT !.handler = "set_trading"]
    /\ UNCHANGED <<feed_vars, ledger_vars, signals_generated, last_signal,
                   trade_callbacks>>

\* add_trade_callback
AddTradeCallback(kind) ==
    /\ Len(trade_callbacks) < MaxCallbacks
    /\ trade_callbacks' = Append(trade_callbacks, kind)
    /\ last' = [Did(NoSignal, "none", 0, World, World, FALSE)
                  EXCEPT !.handler = "add_trade_callback"]
    /\ UNCHANGED <<feed_vars, ledger_vars, is_trading_enabled, signals_generated,
                   last_signal>>

\* get_status: get_portfolio_summary evaluates the drawdown, which raises the
\* stored peak to the capital it finds
GetStatus ==
    /\ LET dd == GetCurrentDrawdown(World)
       IN  /\ Commit(dd.ledger)
           /\ last' = [Did(NoSignal, "none", 0, World, World, FALSE)
                         EXCEPT !.handler = "get_status",
                                !.drawdown = dd.value]
    /\ UNCHANGED <<feed_vars, is_trading_enabled, signals_generated, last_signal,
                   trade_callbacks>>

\* the engine's handlers and controls
Handlers ==
    \/ \E close \in Prices : OnMarketDataNoSignal(close)
    \/ \E signal \in SignalMenu : OnMarketDataSignal(signal)
    \/ \E close \in Prices : OnMarketDataDisabled(close)
    \/ \E price \in Prices : OnTickerData(price)
    \/ \E symbol \in Symbols : ForceClosePosition(symbol)
    \/ \E enabled \in BOOLEAN : SetTrading(enabled)

\* the engine with its status queried at any time and no trade callback
Next ==
    \/ Handlers
    \/ GetStatus

\* the engine with trade callbacks registered at any time, constructed with
\* the configuration of one position at 2% risk
InitCallbacks == Init /\ max_positions = 1

NextCallbacks ==
    \/ Handlers
    \/ \E kind \in CallbackKinds : AddTradeCallback(kind)

SpecCallbacks == InitCallbacks /\ [][NextCallbacks]_vars

\* ---------------------------------------------------- MarketDataHandler
\* The n-th candle of the primary stream, known by its open time.
Candle(n) == [timestamp |-> n]

\* A ticker of the primary stream, known by its price.
TickerData(price, bid) == [price |-> price, bid |-> bid]

Ticker(price) == TickerData(price, price)

\* ohlcv_buffer[-count:] for count >= 0: -0 is 0, so a count of zero slices
\* from the start of the list
LastOf(buffer, count) ==
    IF count = 0 \/ Len(buffer) <= count THEN buffer
    ELSE SubSeq(buffer, Len(buffer) - count + 1, Len(buffer))

\* the callback loop without its try/except: the first raising callback ends
\* the loop and the exception leaves the handler
NotifyUnguarded(callbacks) ==
    LET raising == { i \in DOMAIN callbacks : callbacks[i] = "raises" }
        first == IF raising = {} THEN Len(callbacks)
                 ELSE CHOOSE i \in raising : \A j \in raising : i <= j
    IN  [delivered |-> [i \in 1..first |->
                          [callback |-> i, raised |-> callbacks[i] = "raises"]],
         escaped |-> raising # {}]

\* for callback in callbacks: try: callback(record) except Exception: log
Notify(callbacks) ==
    [delivered |-> [i \in DOMAIN callbacks |->
                      [callback |-> i, raised |-> callbacks[i] = "raises"]],
     escaped |-> FALSE]

\* what _on_ohlcv_data / _on_ticker_data did with a record
Handled(handler, record, notified) ==
    [NoFeedOperation EXCEPT !.handler = handler, !.record = record,
                            !.delivered = notified.delivered,
                            !.escaped = notified.escaped]

\* _on_ohlcv_data that trims the window from the wrong end
OnOhlcvDataKeepsOldest(ohlcv) ==
    /\ candles_received < MaxCandles
    /\ candles_received' = candles_received + 1
    /\ LET appended == Append(ohlcv_buffer, ohlcv)
       IN  ohlcv_buffer' = IF Len(appended) > WindowCapacity
                           THEN SubSeq(appended, 1, WindowCapacity)
                           ELSE appended
    /\ feed_last' = Handled("ohlcv", ohlcv.timestamp, Notify(data_callbacks))
    /\ UNCHANGED <<ledger_vars, is_trading_enabled, signals_generated,
                   last_signal, trade_callbacks, last, consumer_vars,
                   latest_ticker>>

\* _on_ohlcv_data: append, keep the last 1000, notify every callback
OnOhlcvData(ohlcv) ==
    /\ candles_received < MaxCandles
    /\ candles_received' = candles_received + 1
    /\ LET appended == Append(ohlcv_buffer, ohlcv)
       IN  ohlcv_buffer' = IF Len(appended) > WindowCapacity
                           THEN LastOf(appended, WindowCapacity)
                           ELSE appended
    /\ feed_last' = Handled("ohlcv", ohlcv.timestamp, Notify(data_callbacks))
    /\ UNCHANGED <<ledger_vars, is_trading_enabled, signals_generated,
                   last_signal, trade_callbacks, last, consumer_vars,
                   latest_ticker>>

\* get_latest_ohlcv: a slice of the window, which is a new list
GetLatestOhlcv(count) ==
    /\ feed_last' = [NoFeedOperation EXCEPT
                       !.handler = "get_latest_ohlcv", !.count = count,
                       !.returned = IF ohlcv_buffer # <<>>
                                    THEN LastOf(ohlcv_buffer, count) ELSE <<>>,
                       !.fresh = TRUE]
    /\ UNCHANGED <<ledger_vars, is_trading_enabled, signals_generated,
                   last_signal, trade_callbacks, last, window_vars,
                   consumer_vars, latest_ticker>>

\* _on_ticker_data: keep the ticker, notify every callback
HandlerOnTickerData(ticker) ==
    /\ latest_ticker' = ticker
    /\ feed_last' = Handled("ticker", ticker.price, Notify(ticker_callbacks))
    /\ UNCHANGED <<ledger_vars, is_trading_enabled, signals_generated,
                   last_signal, trade_callbacks, last, window_vars,
                   consumer_vars>>

\* add_ohlcv_callback
AddOhlcvCallback(kind) ==
    /\ Len(data_callbacks) < MaxCallbacks
    /\ data_callbacks' = Append(data_callbacks, kind)
    /\ feed_last' = [NoFeedOperation EXCEPT !.handler = "add_ohlcv_callback"]
    /\ UNCHANGED <<ledger_vars, is_trading_enabled, signals_generated,
                   last_signal, trade_callbacks, last, window_vars,
                   ticker_callbacks, latest_ticker>>

\* add_ticker_callback
AddTickerCallback(kind) ==
    /\ Len(ticker_callbacks) < MaxCallbacks
    /\ ticker_callbacks' = Append(ticker_callbacks, kind)
    /\ feed_last' = [NoFeedOperation EXCEPT !.handler = "add_ticker_callback"]
    /\ UNCHANGED <<ledger_vars, is_trading_enabled, signals_generated,
                   last_signal, trade_callbacks, last, window_vars,
                   data_callbacks, latest_ticker>>

\* the Market Data Handler with consumers registered at any time, receiving
\* the primary stream's candles and tickers
NextConsumers ==
    \/ candles_received < MaxRecords
         /\ OnOhlcvData(Candle(candles_received + 1))
         /\ UNCHANGED client_vars
    \/ \E price \in Prices :
         HandlerOnTickerData(Ticker(price)) /\ UNCHANGED client_vars
    \/ \E kind \in CallbackKinds :
         AddOhlcvCallback(kind) /\ UNCHANGED client_vars
    \/ \E kind \in CallbackKinds :
         AddTickerCallback(kind) /\ UNCHANGED client_vars

SpecConsumers == InitCallbacks /\ [][NextConsumers]_vars

\* the Market Data Handler receiving the primary stream's candles, its window
\* read at any time
NextFeed ==
    \/ OnOhlcvData(Candle(candles_received + 1)) /\ UNCHANGED client_vars
    \/ \E count \in Counts : GetLatestOhlcv(count) /\ UNCHANGED client_vars

SpecFeed == InitCallbacks /\ [][NextFeed]_vars

\* ------------------------------------------------------------ Feed Client
\* A Feed Client is a coroutine: pc is the await it is suspended at ("idle"
\* before connect() is called, "scheduled" between the call and its first
\* step). What runs between two awaits is one step.

engine_vars == <<ledger_vars, is_trading_enabled, signals_generated,
                 last_signal, trade_callbacks, last>>

Step(client, step, payload, delivered) ==
    [client |-> client, step |-> step, payload |-> payload,
     delivered |-> delivered]

\* websockets.connect(...) is called
BeginAttempt(cl) ==
    [cl EXCEPT !.pc = "connecting", !.late_attempt = @ \/ cl.stopped]

\* `while self.running:` of MEXCWebSocketClient.connect
WhileRunning(cl) ==
    IF cl.running THEN BeginAttempt(cl) ELSE [cl EXCEPT !.pc = "returned"]

\* leaving `async with websockets.connect(...)` closes the connection
Exited(websocket) ==
    IF websocket.state \in {"open", "closing"}
    THEN [websocket EXCEPT !.state = "closed_ok"] ELSE websocket

\* `except Exception` of MEXCWebSocketClient.connect, up to the sleep
Failed(cl) ==
    LET c1 == [cl EXCEPT !.failures = @ + 1]
    IN  IF c1.running THEN [c1 EXCEPT !.pc = "sleeping"] ELSE WhileRunning(c1)

\* MEXCWebSocketClient.stop
MexcStop(cl) ==
    [cl EXCEPT !.running = FALSE, !.stopped = TRUE,
               !.websocket.state = IF @ = "open" THEN "closing" ELSE @]

\* BinanceWebSocketClient.stop
BinanceStop(cl) == [cl EXCEPT !.running = FALSE, !.stopped = TRUE]

\* MarketDataHandler.start: both connect() coroutines are handed to gather
HandlerStart ==
    /\ \A c \in Clients : clients[c].pc = "idle"
    /\ clients' = [c \in Clients |->
                     [clients[c] EXCEPT !.pc = "scheduled", !.stopped = FALSE]]
    /\ stream_last' = Step("both", "start", NoPayload, "none")
    /\ UNCHANGED <<engine_vars, handler_vars, received>>

\* MarketDataHandler.stop
HandlerStop ==
    /\ clients' = [clients EXCEPT !["mexc"] = MexcStop(@),
                                  !["binance"] = BinanceStop(@)]
    /\ stream_last' = Step("both", "stop", NoPayload, "none")
    /\ UNCHANGED <<engine_vars, handler_vars, received>>

\* one step of a client that touches nothing but the client
ClientStep(c, step, cl) ==
    /\ clients' = [clients EXCEPT ![c] = cl]
    /\ stream_last' = Step(c, step, NoPayload, "none")
    /\ UNCHANGED <<engine_vars, handler_vars, received>>

\* the first step of MEXCWebSocketClient.connect, up to websockets.connect
MexcConnect ==
    /\ clients["mexc"].pc = "scheduled"
    /\ ClientStep("mexc", "connect",
          WhileRunning([clients["mexc"] EXCEPT
                           !.running = TRUE,
                           !.reconnect_delay = ReconnectDelay]))

\* websockets.connect returns a connection
MexcConnected ==
    /\ clients["mexc"].pc = "connecting"
    /\ ClientStep("mexc", "connected",
          [clients["mexc"] EXCEPT
              !.pc = "subscribe_ohlcv",
              !.websocket = [state |-> "open", sent |-> <<>>],
              !.connected = @ + 1])

\* websockets.connect raises
MexcConnectFails ==
    /\ clients["mexc"].pc = "connecting"
    /\ clients["mexc"].failures < MaxFailures
    /\ ClientStep("mexc", "connect_fails", Failed(clients["mexc"]))

\* subscribe_ohlcv that returns without sending, as for self.websocket None
MexcSubscribeOhlcvSkipped ==
    LET cl == clients["mexc"]
    IN  /\ cl.pc = "subscribe_ohlcv"
        /\ ClientStep("mexc", "subscribe_ohlcv",
              [cl EXCEPT !.pc = "subscribe_ticker"])

\* subscribe_ohlcv: the send succeeds on an open connection and raises on a
\* closed one
MexcSubscribeOhlcv ==
    LET cl == clients["mexc"]
    IN  /\ cl.pc = "subscribe_ohlcv"
        /\ IF cl.websocket.state = "open"
           THEN ClientStep("mexc", "subscribe_ohlcv",
                   [cl EXCEPT !.pc = "subscribe_ticker",
                               !.websocket.sent = Append(@, "kline")])
           ELSE ClientStep("mexc", "subscribe_fails",
                   Failed([cl EXCEPT !.websocket = Exited(@)]))

\* subscribe_ticker, then the reset of the delay and the start of listening
MexcSubscribeTicker ==
    LET cl == clients["mexc"]
    IN  /\ cl.pc = "subscribe_ticker"
        /\ IF cl.websocket.state = "open"
           THEN ClientStep("mexc", "subscribe_ticker",
                   [cl EXCEPT !.pc = "listening",
                               !.websocket.sent = Append(@, "miniTicker"),
                               !.reconnect_delay = ReconnectDelay,
                               !.failures = 0])
           ELSE ClientStep("mexc", "subscribe_fails",
                   Failed([cl EXCEPT !.websocket = Exited(@)]))

\* `async for message in websocket` ends: the connection was closed normally
MexcStreamEnds ==
    LET cl == clients["mexc"]
    IN  /\ cl.pc = "listening"
        /\ cl.websocket.state = "closed_ok"
        /\ ClientStep("mexc", "stream_ends", WhileRunning(cl))

\* `async for message in websocket` raises: the connection was lost
MexcStreamFails ==
    LET cl == clients["mexc"]
    IN  /\ cl.pc = "listening"
        /\ cl.websocket.state = "closed_error"
        /\ ClientStep("mexc", "stream_fails", Failed(cl))

\* the wake-up with a delay that doubles without a cap
MexcWakesUncapped ==
    LET cl == clients["mexc"]
    IN  /\ cl.pc = "sleeping"
        /\ ClientStep("mexc", "wakes",
              WhileRunning([cl EXCEPT !.reconnect_delay = @ * 2]))

\* asyncio.sleep(reconnect_delay) returns: the delay doubles up to the cap
MexcWakes ==
    LET cl == clients["mexc"]
    IN  /\ cl.pc = "sleeping"
        /\ ClientStep("mexc", "wakes",
              WhileRunning([cl EXCEPT !.reconnect_delay =
                               Min(@ * 2, MaxReconnectDelay)]))

\* the network or the exchange ends a connection, normally or not
Drop(c, state) ==
    /\ clients[c].websocket.state = "open"
    /\ clients[c].drops < MaxDrops
    /\ ClientStep(c, "drop",
          [clients[c] EXCEPT !.websocket.state = state, !.drops = @ + 1])

\* the close started by stop() completes
CloseCompletes(c) ==
    /\ clients[c].websocket.state = "closing"
    /\ ClientStep(c, "closed",
          [clients[c] EXCEPT !.websocket.state = "closed_ok"])

\* the first step of BinanceWebSocketClient.connect, up to websockets.connect
BinanceConnect ==
    /\ clients["binance"].pc = "scheduled"
    /\ ClientStep("binance", "connect",
          BeginAttempt([clients["binance"] EXCEPT !.running = TRUE]))

\* websockets.connect returns a connection: the stream is in the URL
BinanceConnected ==
    /\ clients["binance"].pc = "connecting"
    /\ ClientStep("binance", "connected",
          [clients["binance"] EXCEPT
              !.pc = "listening",
              !.websocket = [state |-> "open", sent |-> <<>>],
              !.connected = @ + 1, !.failures = 0])

\* websockets.connect raises: logged, connect() returns
BinanceConnectFails ==
    /\ clients["binance"].pc = "connecting"
    /\ ClientStep("binance", "connect_fails",
          [clients["binance"] EXCEPT !.pc = "returned", !.failures = @ + 1])

\* the stream of the backup ends, normally or not: connect() returns
BinanceStreamEnds ==
    LET cl == clients["binance"]
    IN  /\ cl.pc = "listening"
        /\ cl.websocket.state \in {"closed_ok", "closed_error"}
        /\ ClientStep("binance", "stream_ends",
              [cl EXCEPT !.pc = "returned",
                         !.failures = IF cl.websocket.state = "closed_error"
                                      THEN @ + 1 ELSE @])

\* what a message parses to: a record for the client's on_ohlcv or on_ticker,
\* "ignored" for a channel the client does not know, "skipped" when parsing
\* raises
Parsed(kind, record) == [kind |-> kind, record |-> record]

\* MEXCWebSocketClient._handle_message up to the callback: _parse_kline
\* indexes and converts every field; _parse_ticker indexes the price and
\* reads bid, ask, volume and change with a default of 0
MexcParse(payload) ==
    IF ~payload.json THEN Parsed("skipped", 0)
    ELSE IF payload.channel = "kline"
    THEN IF payload.required = "present"
         THEN Parsed("ohlcv", Candle(payload.value))
         ELSE Parsed("skipped", 0)
    ELSE IF payload.channel = "ticker"
    THEN IF payload.required = "present" /\ payload.optional # "non_numeric"
         THEN Parsed("ticker",
                     TickerData(payload.value,
                                IF payload.optional = "missing" THEN 0
                                ELSE payload.value))
         ELSE Parsed("skipped", 0)
    ELSE Parsed("ignored", 0)

\* BinanceWebSocketClient._handle_message up to the callback: both parsers
\* index and convert every field
BinanceParse(payload) ==
    IF ~payload.json THEN Parsed("skipped", 0)
    ELSE IF payload.channel = "kline"
    THEN IF payload.required = "present"
         THEN Parsed("ohlcv", Candle(payload.value))
         ELSE Parsed("skipped", 0)
    ELSE IF payload.channel = "ticker"
    THEN IF payload.required = "present" /\ payload.optional = "present"
         THEN Parsed("ticker", TickerData(payload.value, payload.value))
         ELSE Parsed("skipped", 0)
    ELSE Parsed("ignored", 0)

\* what reaches the client's callback
Callback(parsed) ==
    IF parsed.kind \in {"ohlcv", "ticker"} THEN parsed.kind ELSE "none"

\* a message arrives on the primary connection: _handle_message, and through
\* on_ohlcv / on_ticker the Market Data Handler
MexcReceive(payload) ==
    LET cl == clients["mexc"]
        parsed == MexcParse(payload)
    IN  /\ cl.pc = "listening"
        /\ cl.websocket.state \in {"open", "closing"}
        /\ stream_last' = Step("mexc", "receive", payload, Callback(parsed))
        /\ UNCHANGED clients
        /\ CASE parsed.kind = "ohlcv" ->
                  /\ candles_received < MaxRecords
                  /\ OnOhlcvData(parsed.record)
                  /\ received' = Append(received,
                                    [timestamp |-> parsed.record.timestamp,
                                     connection |-> cl.connected])
             [] parsed.kind = "ticker" ->
                  /\ HandlerOnTickerData(parsed.record)
                  /\ UNCHANGED received
             [] OTHER ->
                  UNCHANGED <<engine_vars, handler_vars, received>>

\* a message arrives on the backup connection: the loop leaves when the
\* client was stopped, otherwise _handle_message, whose callbacks
\* _on_backup_ohlcv / _on_backup_ticker only log
BinanceReceive(payload) ==
    LET cl == clients["binance"]
    IN  /\ cl.pc = "listening"
        /\ cl.websocket.state = "open"
        /\ IF ~cl.running
           THEN /\ clients' = [clients EXCEPT !["binance"] =
                                 [cl EXCEPT !.pc = "returned",
                                            !.websocket = Exited(@)]]
                /\ stream_last' = Step("binance", "break", payload, "none")
           ELSE /\ stream_last' = Step("binance", "receive", payload,
                                       Callback(BinanceParse(payload)))
                /\ UNCHANGED clients
        /\ UNCHANGED <<engine_vars, handler_vars, received>>

\* the steps of the two coroutines that the event loop runs by itself
ClientProgram ==
    \/ MexcConnect
    \/ MexcSubscribeOhlcv
    \/ MexcSubscribeTicker
    \/ MexcStreamEnds
    \/ MexcStreamFails
    \/ MexcWakes
    \/ BinanceConnect
    \/ BinanceStreamEnds
    \/ \E c \in Clients : CloseCompletes(c)

\* the connection life cycle: the coroutines of the two clients, a network
\* that connects, fails and drops, exchanges that send nothing but
\* acknowledgements, and the owner starting and stopping the handler
NextClient ==
    \/ HandlerStart
    \/ HandlerStop
    \/ ClientProgram
    \/ MexcConnected
    \/ MexcConnectFails
    \/ BinanceConnected
    \/ BinanceConnectFails
    \/ \E payload \in Acknowledgements : MexcReceive(payload)
    \/ \E payload \in Acknowledgements : BinanceReceive(payload)
    \/ \E c \in Clients, state \in {"closed_ok", "closed_error"} : Drop(c, state)

SpecClient == InitCallbacks /\ [][NextClient]_vars

\* the same with an event loop that runs every step that is ready and a
\* network that answers every connection attempt; the exchange is free to
\* stay silent and the owner to do nothing
SpecClientFair ==
    /\ SpecClient
    /\ WF_vars(ClientProgram)
    /\ WF_vars(MexcConnected \/ MexcConnectFails)
    /\ WF_vars(BinanceConnected \/ BinanceConnectFails)

\* the stream of a started handler that nobody stops: every connection
\* attempt succeeds, connections drop, the exchanges send every payload
NextStream ==
    \/ HandlerStart
    \/ MexcConnect
    \/ MexcConnected
    \/ MexcSubscribeOhlcv
    \/ MexcSubscribeTicker
    \/ MexcStreamEnds
    \/ MexcStreamFails
    \/ MexcWakes
    \/ \E payload \in Payloads : MexcReceive(payload)
    \/ BinanceConnect
    \/ BinanceConnected
    \/ BinanceStreamEnds
    \/ \E payload \in Payloads : BinanceReceive(payload)
    \/ \E c \in Clients, state \in {"closed_ok", "closed_error"} : Drop(c, state)

SpecStream == InitCallbacks /\ [][NextStream]_vars

\* the engine fed by a strategy that returns invalid signals
NextInvalid ==
    \/ \E signal \in InvalidMenu : OnMarketDataSignal(signal)
    \/ \E price \in Prices : OnTickerData(price)

SpecInvalid == Init /\ [][NextInvalid]_vars

\* calculate_position_size with every comparison of the two candidate sizes
\* deciding for the risk-based one: the capital cap never applies
CalculatePositionSizeCallUncapped(signal) ==
    /\ LET price_diff == Abs(signal.price - signal.stop_loss)
           sz == IF price_diff = 0 THEN NoSizing
                 ELSE [raised |-> FALSE,
                       quantity |-> RoundToGrid(current_capital,
                                                max_risk_per_trade,
                                                100 * price_diff)]
       IN  last' = [Did(signal, "none", 0, World, World, FALSE)
                      EXCEPT !.handler = "calculate_position_size",
                             !.sized = sz]
    /\ UNCHANGED <<feed_vars, ledger_vars, is_trading_enabled,
                   signals_generated, last_signal, trade_callbacks>>

\* a call of RiskManager.calculate_position_size: it reads the ledger and
\* returns the quantity
CalculatePositionSizeCall(signal) ==
    /\ last' = [Did(signal, "none", 0, World, World, FALSE)
                  EXCEPT !.handler = "calculate_position_size",
                         !.sized = CalculatePositionSize(World, signal)]
    /\ UNCHANGED <<feed_vars, ledger_vars, is_trading_enabled,
                   signals_generated, last_signal, trade_callbacks>>

\* the Risk Manager sizing signals, constructed with any of the sizing
\* configurations
InitSizing == \E config \in SizingConfigs : InitWith(config)

NextSizing == \E signal \in SizingSignals : CalculatePositionSizeCall(signal)

SpecSizing == InitSizing /\ [][NextSizing]_vars

\* a call of RiskManager.update_position from outside the engine: the
\* position is repriced and the exit action returned, nothing is closed
UpdatePositionCall(symbol, current_price) ==
    /\ LET u == UpdatePosition(World, symbol, current_price)
           W == Logged(u.ledger, "update_position", symbol, u.action,
                       PositionOf(u.ledger, symbol))
       IN  /\ Commit(W)
           /\ last' = [Did(NoSignal, "none", 0, World, W, FALSE)
                         EXCEPT !.handler = "update_position"]
    /\ UNCHANGED <<feed_vars, is_trading_enabled, signals_generated, last_signal,
                   trade_callbacks>>

\* a call of RiskManager.close_position from outside the engine, with
\* partial_close left at its default of 1.0
ClosePositionCall(symbol, reason) ==
    /\ LET c == ClosePosition(World, symbol, reason, 2)
           W == Logged(c.ledger, "close_position", symbol, reason, c.closed)
       IN  /\ Commit(W)
           /\ last' = [Did(NoSignal, "none", 0, World, W, FALSE)
                         EXCEPT !.handler = "close_position"]
    /\ UNCHANGED <<feed_vars, is_trading_enabled, signals_generated, last_signal,
                   trade_callbacks>>

\* the engine and its Risk Manager with the position operations called on
\* any symbol at any time, constructed with the configuration of one
\* position at 2% risk
NextLedger ==
    \/ \E signal \in SignalMenu : OnMarketDataSignal(signal)
    \/ \E price \in Prices : OnTickerData(price)
    \/ \E symbol \in Symbols : ForceClosePosition(symbol)
    \/ \E symbol \in Symbols, price \in CallPrices :
          UpdatePositionCall(symbol, price)
    \/ \E symbol \in Symbols : ClosePositionCall(symbol, "manual_close")

SpecLedger == InitCallbacks /\ [][NextLedger]_vars

\* --------------------------------------------------------------- Strategy
\* The engine's handlers take their signals from SignalMenu, whatever the
\* strategy behind StrategyInterface; here a NOICEStrategy is driven on its
\* own, one update call per candle, while the clock advances.

\* everything but the strategy and the clock
pipeline_vars ==
    <<positions, position_history, initial_capital, current_capital,
      max_historical_capital, max_risk_per_trade, max_positions,
      total_trades, winning_trades, trades_executed, capital_high,
      is_trading_enabled, signals_generated, last_signal, trade_callbacks,
      last, feed_vars>>

\* NOICEStrategy.get_required_history
GetRequiredHistory ==
    Max(Max(Max(EmaSlow, MacdSlow), Max(BbPeriod, AtrPeriod)), VolumePeriod)
    + 10

\* add_data: the buffer's length after the append and the trim
AddData(st) ==
    LET max_buffer_size == Max(MinBufferSize, GetRequiredHistory * 2)
    IN  [st EXCEPT !.data_buffer = IF st.data_buffer + 1 > max_buffer_size
                                   THEN max_buffer_size
                                   ELSE st.data_buffer + 1]

\* can_generate_signal
CanGenerateSignal(st) == st.data_buffer >= GetRequiredHistory

\* _is_rate_limited: time_since_last < 3600 / max_signals_per_hour
IsRateLimited(st, now) ==
    /\ st.last_signal_time # NoTime
    /\ (now - st.last_signal_time) * MaxSignalsPerHour < 3600

\* log_signal: append, keep the last 100
LogSignal(st, signal) ==
    LET appended == Append(st.signal_history, signal)
    IN  [st EXCEPT !.signal_history =
            IF Len(appended) > SignalHistoryCapacity
            THEN SubSeq(appended, Len(appended) - SignalHistoryCapacity + 1,
                        Len(appended))
            ELSE appended]

\* BaseStrategy.update without the rate limit check
UpdateNotRateLimited(st, generated, now) ==
    LET fed == AddData(st)
    IN  IF ~CanGenerateSignal(fed)
        THEN [strategy |-> fed, returned |-> <<>>]
        ELSE IF generated # GeneratedNone
                /\ generated.confidence >= MinConfidence
        THEN [strategy |-> LogSignal([fed EXCEPT !.last_signal_time = now],
                                     generated),
              returned |-> <<generated>>]
        ELSE [strategy |-> fed, returned |-> <<>>]

\* BaseStrategy.update without the confidence threshold
UpdateAnyConfidence(st, generated, now) ==
    LET fed == AddData(st)
    IN  IF ~CanGenerateSignal(fed)
        THEN [strategy |-> fed, returned |-> <<>>]
        ELSE IF IsRateLimited(fed, now)
        THEN [strategy |-> fed, returned |-> <<>>]
        ELSE IF generated # GeneratedNone
        THEN [strategy |-> LogSignal([fed EXCEPT !.last_signal_time = now],
                                     generated),
              returned |-> <<generated>>]
        ELSE [strategy |-> fed, returned |-> <<>>]

\* BaseStrategy.update: [strategy, returned]; generated is what
\* _generate_signal returns when it is reached, now what datetime.now() reads
Update(st, generated, now) ==
    LET fed == AddData(st)
    IN  IF ~CanGenerateSignal(fed)
        THEN [strategy |-> fed, returned |-> <<>>]
        ELSE IF IsRateLimited(fed, now)
        THEN [strategy |-> fed, returned |-> <<>>]
        ELSE IF generated # GeneratedNone
                /\ generated.confidence >= MinConfidence
        THEN [strategy |-> LogSignal([fed EXCEPT !.last_signal_time = now],
                                     generated),
              returned |-> <<generated>>]
        ELSE [strategy |-> fed, returned |-> <<>>]

\* a candle is fed to the strategy
StrategyUpdate(generated) ==
    /\ strategy_last.fed < MaxFed
    /\ LET u == Update(strategy, generated, clock)
       IN  /\ strategy' = u.strategy
           /\ strategy_last' =
                 [fed |-> strategy_last.fed + 1, returned |-> u.returned,
                  at |-> clock,
                  previous_at |-> IF strategy_last.returned # <<>>
                                  THEN strategy_last.at
                                  ELSE strategy_last.previous_at]
    /\ UNCHANGED <<clock, pipeline_vars, portfolio_vars, bot>>

\* time passes
ClockAdvances ==
    /\ clock + ClockStep <= MaxClock
    /\ clock' = clock + ClockStep
    /\ UNCHANGED <<strategy, strategy_last, pipeline_vars, portfolio_vars,
                   bot>>

NextStrategy ==
    \/ \E generated \in Generated : StrategyUpdate(generated)
    \/ ClockAdvances

SpecStrategy == InitCallbacks /\ [][NextStrategy]_vars

\* -------------------------------------------------------------- Portfolio
\* Position.cost_basis, current_value, unrealized_pnl
CostBasis(p) == p.quantity * p.entry_price
CurrentValue(p) == p.quantity * p.current_price
UnrealizedPnl(p) ==
    IF p.position_type = "long" THEN CurrentValue(p) - CostBasis(p)
    ELSE CostBasis(p) - CurrentValue(p)

\* Portfolio.add_position
PortfolioAdd(pf, position) ==
    [pf EXCEPT !.positions = Put(pf.positions, position),
               !.cash_balance = pf.cash_balance - CostBasis(position)]

\* Portfolio.close_position: [portfolio, returned]; returned is <<>> for None
PortfolioClose(pf, symbol, exit_price) ==
    IF ~Has(pf.positions, symbol) THEN [portfolio |-> pf, returned |-> <<>>]
    ELSE LET position == [Get(pf.positions, symbol)
                            EXCEPT !.current_price = exit_price]
             realized_pnl == UnrealizedPnl(position)
         IN  [portfolio |->
                [pf EXCEPT
                   !.cash_balance = pf.cash_balance + CurrentValue(position),
                   !.trade_history =
                       Append(pf.trade_history,
                              [symbol |-> symbol,
                               type |-> position.position_type,
                               quantity |-> position.quantity,
                               entry_price |-> position.entry_price,
                               exit_price |-> exit_price,
                               realized_pnl |-> realized_pnl]),
                   !.positions = Del(pf.positions, symbol)],
              returned |-> <<realized_pnl>>]

\* what an operation leaves for the next one to look back at
Previous == [op |-> portfolio_last.op, symbol |-> portfolio_last.symbol,
             cash_before |-> portfolio_last.cash_before]

\* a call of Portfolio.add_position
AddPosition(position) ==
    /\ portfolio_last.added < MaxAdded
    /\ portfolio' = PortfolioAdd(portfolio, position)
    /\ portfolio_last' = [op |-> "add_position", symbol |-> position.symbol,
                          cash_before |-> portfolio.cash_balance,
                          returned |-> <<>>, previous |-> Previous,
                          added |-> portfolio_last.added + 1]
    /\ UNCHANGED <<pipeline_vars, strategy_vars, bot>>

\* a call of Portfolio.close_position
PortfolioClosePosition(symbol, exit_price) ==
    /\ LET c == PortfolioClose(portfolio, symbol, exit_price)
       IN  /\ portfolio' = c.portfolio
           /\ portfolio_last' = [op |-> "close_position", symbol |-> symbol,
                                 cash_before |-> portfolio.cash_balance,
                                 returned |-> c.returned,
                                 previous |-> Previous,
                                 added |-> portfolio_last.added]
    /\ UNCHANGED <<pipeline_vars, strategy_vars, bot>>

NextPortfolio ==
    \/ \E position \in PortfolioPositions : AddPosition(position)
    \/ \E symbol \in PortfolioSymbols, exit_price \in ExitPrices :
          PortfolioClosePosition(symbol, exit_price)

SpecPortfolio == InitCallbacks /\ [][NextPortfolio]_vars

\* ---------------------------------------------------------------- BaseBot
\* run() and stop() are coroutines on one event loop: what runs between two
\* awaits is one step. get_market_data, analyze_market and execute_trade are
\* abstract and may suspend; execute_trade acts as TrendFollowingBot's does.

\* Position.should_stop_loss, should_take_profit
PortfolioShouldStopLoss(p) ==
    /\ p.stop_loss # NoLevel
    /\ IF p.position_type = "long" THEN p.current_price <= p.stop_loss
       ELSE p.current_price >= p.stop_loss
PortfolioShouldTakeProfit(p) ==
    /\ p.take_profit # NoLevel
    /\ IF p.position_type = "long" THEN p.current_price >= p.take_profit
       ELSE p.current_price <= p.take_profit

\* Portfolio.total_value
TotalValue(pf) ==
    pf.cash_balance
    + (IF pf.positions = <<>> THEN 0 ELSE CurrentValue(pf.positions[1]))

\* _update_portfolio_prices with market_data = {BotSymbol: {'price': price}}
UpdatePortfolioPrices(pf, price) ==
    [pf EXCEPT !.positions =
        [i \in 1..Len(pf.positions) |->
            IF pf.positions[i].symbol = BotSymbol
            THEN [pf.positions[i] EXCEPT !.current_price = price]
            ELSE pf.positions[i]]]

\* _check_risk_management: for symbol, position in list(positions.items())
RECURSIVE CheckEach(_, _, _)
CheckEach(pf, listed, i) ==
    IF i > Len(listed) THEN pf
    ELSE LET position == listed[i]
             after == IF PortfolioShouldStopLoss(position)
                         \/ PortfolioShouldTakeProfit(position)
                      THEN PortfolioClose(pf, position.symbol,
                                          position.current_price).portfolio
                      ELSE pf
         IN  CheckEach(after, listed, i + 1)
CheckRiskManagement(pf) == CheckEach(pf, pf.positions, 1)

\* _close_all_positions: every position is closed at its current price
RECURSIVE CloseEach(_, _, _)
CloseEach(pf, listed, i) ==
    IF i > Len(listed) THEN pf
    ELSE CloseEach(PortfolioClose(pf, listed[i].symbol,
                                  listed[i].current_price).portfolio,
                   listed, i + 1)
CloseAllPositions(pf) == CloseEach(pf, pf.positions, 1)

\* BaseBot.open_position: [portfolio, success]
BotOpenPosition(pf, signal) ==
    IF signal.quantity * signal.entry_price > pf.cash_balance
    THEN [portfolio |-> pf, success |-> FALSE]
    ELSE [portfolio |->
            PortfolioAdd(pf, PortfolioPosition(signal.symbol, "long",
                                               signal.quantity,
                                               signal.entry_price,
                                               signal.stop_loss,
                                               signal.take_profit)),
          success |-> TRUE]

\* TrendFollowingBot.execute_trade: a buy opens a long position, a sell
\* closes the symbol's position at the signal's price
ExecuteBotTrade(pf, signal) ==
    IF signal.signal_type = "buy" THEN BotOpenPosition(pf, signal).portfolio
    ELSE IF Has(pf.positions, signal.symbol)
    THEN PortfolioClose(pf, signal.symbol, signal.entry_price).portfolio
    ELSE pf

\* the top of the while loop: leave through finally when a stop is
\* requested, await get_market_data otherwise
LoopTest(b) ==
    IF b.stop_requested
    THEN [b EXCEPT !.running = FALSE, !.status = "stopped",
                   !.run_pc = "done"]
    ELSE [b EXCEPT !.run_pc = "get_market_data"]

\* run() is called: up to the first await
RunStart ==
    /\ bot.run_pc = "idle"
    /\ bot' = IF bot.running THEN [bot EXCEPT !.run_pc = "done"]
              ELSE LoopTest([bot EXCEPT !.running = TRUE,
                                        !.stop_requested = FALSE,
                                        !.status = "running"])
    /\ UNCHANGED <<pipeline_vars, strategy_vars, portfolio_vars>>

\* get_market_data returns: prices updated, risk rules enforced,
\* analyze_market awaited
RunGetsMarketData(price) ==
    /\ bot.run_pc = "get_market_data"
    /\ portfolio' = CheckRiskManagement(UpdatePortfolioPrices(portfolio, price))
    /\ bot' = [bot EXCEPT !.run_pc = "analyze_market"]
    /\ UNCHANGED <<pipeline_vars, strategy_vars, portfolio_last>>

\* analyze_market returns a signal: execute_trade awaited
RunAnalyzesSignal(signal) ==
    /\ bot.run_pc = "analyze_market"
    /\ bot.total_trades < MaxBotSignals
    /\ bot' = [bot EXCEPT !.run_pc = "execute_trade", !.signal = signal]
    /\ UNCHANGED <<pipeline_vars, strategy_vars, portfolio_vars>>

\* analyze_market returns no signal: the balance is taken, the loop sleeps
RunAnalyzesNothing ==
    /\ bot.run_pc = "analyze_market"
    /\ bot' = [bot EXCEPT !.balance = TotalValue(portfolio),
                          !.run_pc = "sleep"]
    /\ UNCHANGED <<pipeline_vars, strategy_vars, portfolio_vars>>

\* execute_trade returns: the trade is recorded, the balance taken, the loop
\* sleeps
RunExecutesTrade ==
    /\ bot.run_pc = "execute_trade"
    /\ portfolio' = ExecuteBotTrade(portfolio, bot.signal)
    /\ bot' = [bot EXCEPT !.total_trades = bot.total_trades + 1,
                          !.balance = TotalValue(portfolio'),
                          !.signal = NoBotSignal,
                          !.run_pc = "sleep"]
    /\ UNCHANGED <<pipeline_vars, strategy_vars, portfolio_last>>

\* an awaited step raises: the error is logged, the loop sleeps 5 s
RunStepRaises ==
    /\ bot.run_pc \in {"get_market_data", "analyze_market", "execute_trade"}
    /\ bot' = [bot EXCEPT !.signal = NoBotSignal, !.run_pc = "sleep"]
    /\ UNCHANGED <<pipeline_vars, strategy_vars, portfolio_vars>>

\* the sleep of the run loop ends
RunWakes ==
    /\ bot.run_pc = "sleep"
    /\ bot' = LoopTest(bot)
    /\ UNCHANGED <<pipeline_vars, strategy_vars, portfolio_vars>>

\* stop() is called on a running bot: the stop is requested, all positions
\* are closed, the wait for the main loop begins
StopCalled ==
    /\ bot.stop_pc = "idle"
    /\ bot.running
    /\ portfolio' = CloseAllPositions(portfolio)
    /\ bot' = [bot EXCEPT !.stop_requested = TRUE, !.timeout = StopTimeout,
                          !.stop_pc = "waiting"]
    /\ UNCHANGED <<pipeline_vars, strategy_vars, portfolio_last>>

\* a sleep of stop() ends: 0.1 s less to wait; stop() returns when the loop
\* has ended or the time is up
StopWakes ==
    /\ bot.stop_pc = "waiting"
    /\ LET timeout == bot.timeout - 1
       IN  bot' = [bot EXCEPT !.timeout = timeout,
                              !.stop_pc = IF bot.running /\ timeout > 0
                                          THEN "waiting" ELSE "returned"]
    /\ UNCHANGED <<pipeline_vars, strategy_vars, portfolio_vars>>

NextBot ==
    \/ RunStart
    \/ \E price \in MarketPrices : RunGetsMarketData(price)
    \/ \E signal \in BotSignals : RunAnalyzesSignal(signal)
    \/ RunAnalyzesNothing
    \/ RunExecutesTrade
    \/ RunStepRaises
    \/ RunWakes
    \/ StopCalled
    \/ StopWakes

SpecBot == InitCallbacks /\ [][NextBot]_vars

Spec == Init /\ [][Next]_vars

\* ============================================================== claims
\* The calls of the last handler with the given operation.
CallsOf(op) == { i \in DOMAIN last.calls : last.calls[i].op = op }
EventsOf(l, action) == { i \in DOMAIN l.events : l.events[i].action = action }

\* The price conditions of the exits, as the specification states them.
StopCondition(p) ==
    \/ p.side = "LONG" /\ p.current_price <= p.stop_loss
    \/ p.side = "SHORT" /\ p.current_price >= p.stop_loss
TakeProfitCondition(p, level) ==
    \/ p.side = "LONG" /\ p.current_price >= level
    \/ p.side = "SHORT" /\ p.current_price <= level

\* C1: whenever one update_position finds the stop-loss condition and a
\* take-profit condition (the price beyond TP1 or beyond TP2) both true, it
\* returns 'stop_loss', the close that follows is the stop-loss close, and
\* the handler emits no take-profit event for that call.
C1_StopLossPrecedence ==
    \A i \in CallsOf("update_position") :
        LET c == last.calls[i]
        IN  ( /\ StopCondition(c.position)
              /\ \/ TakeProfitCondition(c.position, c.position.take_profit_1)
                 \/ TakeProfitCondition(c.position, c.position.take_profit_2) )
            => /\ c.ret = "stop_loss"
               /\ i + 1 \in CallsOf("close_position")
               /\ last.calls[i + 1].symbol = c.symbol
               /\ last.calls[i + 1].ret = "stop_loss"

\* C1 witness: an update whose price is at once at the stop and beyond the
\* first target of a position that has not taken it, answered 'stop_loss'.
C1_Witness ==
    \E i \in CallsOf("update_position") :
        LET c == last.calls[i]
        IN  /\ StopCondition(c.position)
            /\ ~c.position.tp1_hit
            /\ TakeProfitCondition(c.position, c.position.take_profit_1)
            /\ c.ret = "stop_loss"

\* the same for the second target of a position that has taken the first
C1_WitnessTp2 ==
    \E i \in CallsOf("update_position") :
        LET c == last.calls[i]
        IN  /\ StopCondition(c.position)
            /\ c.position.tp1_hit
            /\ TakeProfitCondition(c.position, c.position.take_profit_2)
            /\ c.ret = "stop_loss"

\* C2: every position the engine opens has 0 < quantity and
\* quantity * entry_price <= 0.95 * current_capital, the capital being the one
\* the handler found (0.95 is 19/20).
C2_OpenWithinBuffer ==
    [][ \A i \in EventsOf(last', "open_position") :
            LET p == last'.events[i].position
            IN  /\ 0 < p.quantity
                /\ p.quantity * p.entry_price * 20 <= 19 * current_capital
      ]_vars

\* risk at stop of a sequence of positions: sum |entry - stop| * remaining
RECURSIVE RiskAtStop(_)
RiskAtStop(ps) ==
    IF ps = <<>> THEN 0
    ELSE Abs(Head(ps).entry_price - Head(ps).stop_loss)
            * Head(ps).remaining_quantity
         + RiskAtStop(Tail(ps))

\* C3: right after an admitted open, the risk at stop of the positions then
\* open (those the handler found, and the new one) is at most
\* max_portfolio_risk of the capital.
C3_RiskCeilingAfterOpen ==
    [][ \A i \in EventsOf(last', "open_position") :
            (RiskAtStop(positions) + RiskAtStop(<<last'.events[i].position>>))
                * 100 <= MaxPortfolioRiskPct * current_capital
      ]_vars

\* C4: when the engine handles a take_profit_1 exit, the position afterwards
\* has its stop at the entry price, tp1_hit set, status PARTIAL, is still
\* open, and holds half the quantity it held when the exit was triggered.
C4_Tp1HalvesAndKeepsOpen ==
    \A i \in CallsOf("update_position") :
        LET c == last.calls[i]
        IN  c.ret = "take_profit_1"
            => /\ Has(positions, c.symbol)
               /\ LET p == Get(positions, c.symbol)
                  IN  /\ p.stop_loss = p.entry_price
                      /\ p.tp1_hit
                      /\ p.status = "PARTIAL"
                      /\ 2 * p.remaining_quantity
                            = c.position.remaining_quantity

\* C5: the scenario LONG 10 @ 1.00, stop 0.95, TP1 1.10, TP2 1.20.  The tick
\* 1.10 closes 5 units realizing 0.5, moves the stop to 1.00 and leaves the
\* position PARTIAL; the tick 0.99 then closes the other 5 units at the stop
\* price: nothing is realized on them, so the closed position's realized P&L
\* is 0.5 and the capital does not move.
C5_IsScenario(p) ==
    /\ p.side = "LONG" /\ p.quantity = 10 * QtyOne /\ p.entry_price = 100
    /\ p.take_profit_1 = 110 /\ p.take_profit_2 = 120
C5_BreakevenScenario ==
    [][ /\ \A i \in DOMAIN positions :
             ( /\ C5_IsScenario(positions[i])
               /\ positions[i].status = "OPEN"
               /\ positions[i].stop_loss = 95
               /\ Has(positions', positions[i].symbol)
               /\ Get(positions', positions[i].symbol).current_price = 110
               /\ positions[i].current_price # 110 )
             => LET q == Get(positions', positions[i].symbol)
                IN  /\ q.status = "PARTIAL"
                    /\ q.remaining_quantity = 5 * QtyOne
                    /\ q.realized_pnl = Money(50)
                    /\ q.stop_loss = 100
                    /\ current_capital' = current_capital + Money(50)
        /\ \A i \in DOMAIN positions :
             ( /\ C5_IsScenario(positions[i])
               /\ positions[i].status = "PARTIAL"
               /\ positions[i].realized_pnl = Money(50)
               /\ Len(position_history') = Len(position_history) + 1
               /\ position_history'[Len(position_history')].symbol
                     = positions[i].symbol
               /\ position_history'[Len(position_history')].current_price = 99
               /\ positions[i].current_price # 99 )
             => LET q == position_history'[Len(position_history')]
                IN  /\ q.status = "CLOSED"
                    /\ q.remaining_quantity = 0
                    /\ q.realized_pnl = Money(50)
                    /\ current_capital' = current_capital
      ]_vars

\* the scenario's end as the program reaches it
C5_ScenarioReached ==
    \E j \in DOMAIN position_history :
        /\ C5_IsScenario(position_history[j])
        /\ position_history[j].tp1_hit
        /\ position_history[j].current_price = 99
        /\ position_history[j].realized_pnl = Money(50) - 5 * QtyOne

\* the remaining quantity a position had before call i of the handler: the
\* one its last earlier call left, or the one the handler found
RemainingBefore(l, ps, i) ==
    LET earlier == { j \in 1..(i - 1) : l.calls[j].symbol = l.calls[i].symbol }
    IN  IF earlier # {}
        THEN l.calls[CHOOSE j \in earlier : \A k \in earlier : k <= j]
                .position.remaining_quantity
        ELSE Get(ps, l.calls[i].symbol).remaining_quantity

\* the realized P&L of the portion call i closed: the side-signed difference
\* of the close price and the entry, times the quantity closed
RealizedBy(l, ps, i) ==
    LET q == l.calls[i].position
        diff == IF q.side = "LONG" THEN q.current_price - q.entry_price
                ELSE q.entry_price - q.current_price
    IN  diff * (RemainingBefore(l, ps, i) - q.remaining_quantity)

RECURSIVE RealizedUpTo(_, _, _)
RealizedUpTo(l, ps, n) ==
    IF n = 0 THEN 0
    ELSE RealizedUpTo(l, ps, n - 1)
         + IF l.calls[n].op = "close_position" THEN RealizedBy(l, ps, n) ELSE 0

\* C6: in every step current_capital moves by the sum of the realized P&L of
\* the portions the step's close_position calls closed, and by nothing else:
\* update_position and open_position leave it alone.
C6_CapitalOnlyRealized ==
    [][ current_capital' - current_capital
            = RealizedUpTo(last', positions, Len(last'.calls)) ]_vars

\* C6 witness: a handler that marked a position to a price away from its
\* entry (unrealized P&L non-zero) and closed a portion with non-zero P&L.
C6_Witness ==
    /\ \E i \in CallsOf("update_position") :
          /\ last.calls[i].position.unrealized_pnl # 0
          /\ last.calls[i].ret = "none"
    /\ \E i \in CallsOf("close_position") :
          /\ last.calls[i].position.realized_pnl # 0
          /\ current_capital # initial_capital

\* the signal the last handler processed asks for a new position
OpeningSignal(l) == l.signal.signal_type \in {"BUY", "SELL"}

\* C7: after every handler the open set holds at most one position per
\* symbol and at most max_positions positions, and a BUY/SELL signal for a
\* symbol that has an open position is rejected and opens nothing: if the
\* symbol is still open afterwards, it is the position that was open before.
C7_OnePositionPerSymbol ==
    [][ /\ \A i, j \in DOMAIN positions' :
              positions'[i].symbol = positions'[j].symbol => i = j
        /\ Len(positions') <= max_positions
        /\ ( OpeningSignal(last') /\ Has(positions, last'.signal.symbol) )
           => /\ last'.outcome = "rejected"
              /\ last'.mid_same
              /\ EventsOf(last', "open_position") = {}
              /\ total_trades' = total_trades
              /\ Has(positions', last'.signal.symbol)
                 => Get(positions', last'.signal.symbol).opened_at
                       = Get(positions, last'.signal.symbol).opened_at
      ]_vars

\* C7 witness: a BUY/SELL signal for an open symbol was turned away by the
\* symbol check while the open set was below its ceiling.
C7_Witness ==
    /\ OpeningSignal(last)
    /\ last.outcome = "rejected" /\ last.check = 2
    /\ Has(positions, last.signal.symbol)
    /\ Len(positions) < max_positions

\* the ceiling itself turning a signal away
C7_WitnessCeiling ==
    /\ OpeningSignal(last)
    /\ last.outcome = "rejected" /\ last.check = 1
    /\ Len(positions) = max_positions

\* C8: a BUY/SELL signal that fails an admission check is only rejected:
\* _process_signal leaves the open set, its positions, current_capital,
\* total_trades and trades_executed as it found them, calls open_position
\* not at all and delivers no open_position event.
C8_RejectionChangesNothing ==
    ( OpeningSignal(last) /\ last.outcome = "rejected" )
    => /\ last.check \in 1..5
       /\ last.mid_same
       /\ CallsOf("open_position") = {}
       /\ EventsOf(last, "open_position") = {}

\* C8 witnesses: a rejection by each of the five checks
C8_RejectedBy(check) ==
    OpeningSignal(last) /\ last.outcome = "rejected" /\ last.check = check
C8_Witness == C8_RejectedBy(4) /\ max_historical_capital > current_capital
C8_WitnessCount == C8_RejectedBy(1)
C8_WitnessSymbol == C8_RejectedBy(2)
C8_WitnessRisk == C8_RejectedBy(3)
C8_WitnessRiskReward == C8_RejectedBy(5)

\* the position (symbol, opened_at) is in the sequence ps
Same(p, q) == p.symbol = q.symbol /\ p.opened_at = q.opened_at

\* C9: a position's remaining_quantity never increases while it is open, and
\* every position in the closed history has remaining_quantity exactly 0.
C9_RemainingReachesZero ==
    [][ /\ \A i \in DOMAIN positions : \A j \in DOMAIN positions' :
              Same(positions[i], positions'[j])
              => positions'[j].remaining_quantity
                    <= positions[i].remaining_quantity
        /\ \A j \in DOMAIN position_history' :
              position_history'[j].remaining_quantity = 0
      ]_vars

StatusRank(status) ==
    IF status = "OPEN" THEN 1 ELSE IF status = "PARTIAL" THEN 2 ELSE 3

\* C10: open positions are OPEN or PARTIAL and never fall back from PARTIAL
\* to OPEN; the closed history holds CLOSED positions only, is only ever
\* appended to (no entry changes or leaves), and no position of the history
\* is in the open set.
C10_StateMachine ==
    [][ /\ \A j \in DOMAIN positions' :
              positions'[j].status \in {"OPEN", "PARTIAL"}
        /\ \A j \in DOMAIN position_history' :
              position_history'[j].status = "CLOSED"
        /\ Len(position_history') >= Len(position_history)
        /\ \A j \in DOMAIN position_history :
              position_history'[j] = position_history[j]
        /\ \A i \in DOMAIN positions : \A j \in DOMAIN positions' :
              Same(positions[i], positions'[j])
              => StatusRank(positions'[j].status)
                    >= StatusRank(positions[i].status)
        /\ \A i \in DOMAIN positions' : \A j \in DOMAIN position_history' :
              ~Same(positions'[i], position_history'[j])
      ]_vars

\* C10 witness: a symbol whose earlier position is CLOSED in the history has
\* been admitted again and holds a new position, now PARTIAL.
C10_Witness ==
    \E i \in DOMAIN positions : \E j \in DOMAIN position_history :
        /\ positions[i].symbol = position_history[j].symbol
        /\ positions[i].opened_at > position_history[j].opened_at
        /\ position_history[j].status = "CLOSED"
        /\ positions[i].status = "PARTIAL"

\* C11: every handler updates a symbol at most once; update_position answers
\* 'take_profit_1' only for a position that has not taken its first target
\* and 'take_profit_2' only for one that has taken the first and not the
\* second; a position's tp1_hit, once set, stays set, and a position that
\* has it set is never closed for take_profit_1 again.
C11_TakeProfitsOnce ==
    [][ /\ \A i, j \in DOMAIN last'.calls :
              ( /\ last'.calls[i].op = "update_position"
                /\ last'.calls[j].op = "update_position"
                /\ last'.calls[i].symbol = last'.calls[j].symbol ) => i = j
        /\ \A i \in DOMAIN last'.calls :
              LET c == last'.calls[i]
              IN  c.op = "update_position"
                  => /\ c.ret \in {"none", "stop_loss", "take_profit_1",
                                   "take_profit_2"}
                     /\ c.ret = "take_profit_1" => ~c.position.tp1_hit
                     /\ c.ret = "take_profit_2"
                        => c.position.tp1_hit /\ ~c.position.tp2_hit
        /\ \A i \in DOMAIN positions :
              positions[i].tp1_hit
              => /\ \A j \in DOMAIN positions' :
                       Same(positions[i], positions'[j])
                       => positions'[j].tp1_hit
                 /\ \A k \in DOMAIN last'.calls :
                       ~ ( /\ last'.calls[k].symbol = positions[i].symbol
                           /\ last'.calls[k].ret = "take_profit_1" )
      ]_vars

\* C11 witness: the second target answered for a position that had taken
\* the first one, with the price beyond the first target as well.
C11_Witness ==
    \E i \in CallsOf("update_position") :
        LET c == last.calls[i]
        IN  /\ c.ret = "take_profit_2"
            /\ c.position.tp1_hit
            /\ TakeProfitCondition(c.position, c.position.take_profit_1)

\* the admission gate of the step's signal evaluated the drawdown: the
\* signal passed the count, symbol and portfolio-risk checks
GateEvaluated(l) == OpeningSignal(l) /\ l.check \in {0, 4, 5}

\* C12: the stored peak max_historical_capital never decreases; the drawdown
\* get_status reports is (peak - current_capital) / peak over the stored
\* peak, and not below 0; and the gate rejects for drawdown exactly when
\* that fraction of the capital it found is at least max_drawdown.
C12_PeakNeverDecreases ==
    [][ /\ max_historical_capital' >= max_historical_capital
        /\ last'.handler = "get_status"
           => /\ last'.drawdown.den = max_historical_capital'
              /\ last'.drawdown.num
                    = Max(0, max_historical_capital' - current_capital')
              /\ last'.drawdown.num >= 0
        /\ GateEvaluated(last')
           => ( last'.check = 4
                <=> (max_historical_capital' - current_capital) * 100
                       >= MaxDrawdownPct * max_historical_capital' )
      ]_vars

\* C12 witness: a status query that raised the stored peak above the
\* initial capital was followed by losses, and a later query reports a
\* positive drawdown from that peak.
C12_Witness ==
    /\ last.handler = "get_status"
    /\ last.drawdown.num > 0
    /\ max_historical_capital > initial_capital
    /\ current_capital < max_historical_capital

\* C13: whenever the drawdown is evaluated, by the admission gate or by the
\* status query, the peak it is measured against is the highest value
\* current_capital has held since construction.
C13_PeakIsHistoricalHigh ==
    [][ ( last'.handler = "get_status" \/ GateEvaluated(last') )
        => max_historical_capital' = capital_high
      ]_vars

\* a high that was reached and lost between two evaluations
C13_LostHigh ==
    /\ last.handler = "get_status"
    /\ capital_high > max_historical_capital
    /\ current_capital < capital_high

\* the lifecycle action of a call that changed the ledger: an open, or a
\* close for the reason it was made for
LifecycleAction(c) == IF c.op = "open_position" THEN "open_position" ELSE c.ret

\* the calls of the handler that changed the ledger
Transitions(l) ==
    { i \in DOMAIN l.calls :
        /\ l.calls[i].op \in {"open_position", "close_position"}
        /\ l.calls[i].position # NoPosition }

\* the deliveries of the handler to callback k for a symbol and an action
DeliveriesOf(l, k, symbol, action) ==
    { d \in DOMAIN l.delivered :
        /\ l.delivered[d].callback = k
        /\ l.delivered[d].symbol = symbol
        /\ l.delivered[d].action = action }

\* C14: every transition of the ledger -- an open, a stop-loss, TP1 or TP2
\* close, a manual close for a CLOSE_LONG/CLOSE_SHORT signal, a forced close
\* -- delivers exactly one event with the matching action to every
\* registered trade callback.
C14_EveryTransitionDelivered ==
    \A i \in Transitions(last) : \A k \in DOMAIN trade_callbacks :
        Cardinality(DeliveriesOf(last, k, last.calls[i].symbol,
                                 LifecycleAction(last.calls[i]))) = 1

\* a forced close of an open position with a callback registered
C14_ForcedCloseReached ==
    /\ last.handler = "force_close" /\ last.result
    /\ Transitions(last) # {}
    /\ trade_callbacks # <<>>

\* C15: every event the engine emits is delivered to every registered trade
\* callback, in registration order, whichever of them raise; the handler
\* runs to its end: the positions opened are counted in trades_executed and
\* total_trades, the capital holds the realized P&L of every close, and
\* every exit answered by update_position was followed by its close.
C15_CallbackFailureIsolated ==
    [][ LET n == Len(trade_callbacks)
            l == last'
        IN  /\ Len(l.delivered) = Len(l.events) * n
            /\ \A e \in DOMAIN l.events : \A k \in 1..n :
                  LET d == l.delivered[(e - 1) * n + k]
                  IN  /\ d.callback = k
                      /\ d.action = l.events[e].action
                      /\ d.symbol = l.events[e].symbol
                      /\ d.raised = (trade_callbacks[k] = "raises")
            /\ l.handler \in {"candle", "ticker"}
               => /\ trades_executed' - trades_executed
                        = Cardinality(EventsOf(l, "open_position"))
                  /\ total_trades' - total_trades
                        = Cardinality(EventsOf(l, "open_position"))
                  /\ current_capital' - current_capital
                        = RealizedUpTo(l, positions, Len(l.calls))
                  /\ \A i \in DOMAIN l.calls :
                        ( l.calls[i].op = "update_position"
                          /\ l.calls[i].ret # "none" )
                        => /\ i + 1 \in DOMAIN l.calls
                           /\ l.calls[i + 1].op = "close_position"
                           /\ l.calls[i + 1].symbol = l.calls[i].symbol
      ]_vars

\* C15 witness: a callback raised on an event, the callback registered after
\* it received the same event, and the handler went on to close a position.
C15_Witness ==
    /\ Len(trade_callbacks) = 2
    /\ \E d \in DOMAIN last.delivered :
          /\ last.delivered[d].raised
          /\ last.delivered[d].callback = 1
          /\ d + 1 \in DOMAIN last.delivered
          /\ last.delivered[d + 1].callback = 2
          /\ ~last.delivered[d + 1].raised
          /\ last.delivered[d + 1].action = last.delivered[d].action
    /\ EventsOf(last, "open_position") # {}
    /\ CallsOf("close_position") # {}

\* C16: a candle handled while trading is disabled is still fed to the
\* strategy (whose signal would be counted and kept), and no signal opens
\* or closes a position.
C16_DisabledStillGenerates ==
    ( last.handler = "candle" /\ ~is_trading_enabled )
    => /\ last.strategy_updated
       /\ CallsOf("open_position") = {}
       /\ \A i \in CallsOf("close_position") :
             last.calls[i].ret # "manual_close"

\* a candle handled while trading is disabled and a position is open
C16_DisabledCandleReached ==
    /\ last.handler = "candle" /\ ~is_trading_enabled
    /\ positions # <<>>

\* the handler updated the symbol's position
UpdatedIn(l, symbol) ==
    \E i \in DOMAIN l.calls :
        l.calls[i].op = "update_position" /\ l.calls[i].symbol = symbol

\* C17: while trading is disabled every candle and every ticker is still
\* pushed through update_position for every open symbol.
C17_DisabledStillMonitors ==
    [][ ( ~is_trading_enabled /\ last'.handler \in {"candle", "ticker"} )
        => \A i \in DOMAIN positions : UpdatedIn(last', positions[i].symbol)
      ]_vars

\* a ticker handled while trading is disabled that closed a position
C17_DisabledTickerExit ==
    /\ last.handler = "ticker" /\ ~is_trading_enabled
    /\ CallsOf("close_position") # {}

\* the symbols open when the handler reaches _update_positions: those open
\* before, less the ones its signal closed, and the one its signal opened
OpenAtUpdate(l, ps) ==
    { s \in Symbols :
        \/ /\ Has(ps, s)
           /\ ~ \E i \in DOMAIN l.calls :
                  l.calls[i].symbol = s /\ l.calls[i].ret = "manual_close"
        \/ \E i \in DOMAIN l.calls :
              l.calls[i].symbol = s /\ l.calls[i].op = "open_position" }

\* the handler pushed `price` through update_position for every symbol of
\* the open set ps, and followed every exit by its close: half of the
\* remaining quantity for take_profit_1, all of it otherwise
Pushed(l, ps, price) ==
    /\ \A s \in OpenAtUpdate(l, ps) :
          \E i \in DOMAIN l.calls :
              /\ l.calls[i].op = "update_position"
              /\ l.calls[i].symbol = s
              /\ l.calls[i].position.current_price = price
    /\ \A i \in DOMAIN l.calls :
          ( l.calls[i].op = "update_position" /\ l.calls[i].ret # "none" )
          => /\ i + 1 \in DOMAIN l.calls
             /\ l.calls[i + 1].op = "close_position"
             /\ l.calls[i + 1].symbol = l.calls[i].symbol
             /\ l.calls[i + 1].ret = l.calls[i].ret
             /\ l.calls[i + 1].position.remaining_quantity
                   = IF l.calls[i].ret = "take_profit_1"
                     THEN l.calls[i].position.remaining_quantity \div 2
                     ELSE 0
             /\ l.calls[i].ret = "take_profit_1"
                => l.calls[i].position.remaining_quantity % 2 = 0

\* C18: with trading enabled every candle -- no signal, a rejected signal, a
\* signal whose processing failed, a signal that opened or closed a
\* position -- has its close pushed through update_position for every open
\* symbol, every exit being followed by its partial or full close.
C18_EveryCandleUpdates ==
    [][ /\ \A close \in Prices :
              OnMarketDataNoSignal(close) => Pushed(last', positions, close)
        /\ \A signal \in SignalMenu :
              OnMarketDataSignal(signal)
              => Pushed(last', positions, signal.price)
      ]_vars

\* C18 witness: a candle whose signal failed in processing, after which the
\* open position was updated and stopped out.
C18_Witness ==
    /\ last.handler = "candle" /\ last.outcome = "error"
    /\ \E i \in CallsOf("update_position") : last.calls[i].ret = "stop_loss"

\* the same for a rejected signal, with a first target taken
C18_WitnessRejected ==
    /\ last.handler = "candle" /\ last.outcome = "rejected"
    /\ \E i \in CallsOf("update_position") :
          last.calls[i].ret = "take_profit_1"

\* C19: a ticker never runs the strategy and never opens a position:
\* signals_generated, last_signal, trades_executed and total_trades are
\* unchanged, open_position is not called, and every call into the Risk
\* Manager is the price update of an open symbol or the close of its exit.
C19_TickerOnlyRefreshes ==
    [][ \A price \in Prices :
          OnTickerData(price)
          => /\ signals_generated' = signals_generated
             /\ last_signal' = last_signal
             /\ trades_executed' = trades_executed
             /\ total_trades' = total_trades
             /\ ~last'.strategy_updated
             /\ last'.signal = NoSignal
             /\ \A i \in DOMAIN last'.calls :
                   /\ Has(positions, last'.calls[i].symbol)
                   /\ \/ /\ last'.calls[i].op = "update_position"
                         /\ last'.calls[i].position.current_price = price
                      \/ /\ last'.calls[i].op = "close_position"
                         /\ last'.calls[i].ret
                               \in {"stop_loss", "take_profit_1",
                                    "take_profit_2"}
      ]_vars

\* C19 witness: a ticker whose price closed a position at its stop.
C19_Witness ==
    /\ last.handler = "ticker"
    /\ \E i \in CallsOf("close_position") : last.calls[i].ret = "stop_loss"
    /\ signals_generated > 0

\* C20: the rolling window never holds more than its capacity, and it holds
\* exactly the most recent min(n, capacity) of the n candles received, in
\* arrival order.
C20_WindowHoldsMostRecent ==
    /\ Len(ohlcv_buffer) <= WindowCapacity
    /\ Len(ohlcv_buffer) = Min(candles_received, WindowCapacity)
    /\ \A i \in DOMAIN ohlcv_buffer :
          ohlcv_buffer[i]
             = Candle(candles_received - Len(ohlcv_buffer) + i)

\* C20 witness: more candles than the capacity were received and the oldest
\* ones are gone from a full window.
C20_Witness ==
    /\ candles_received > WindowCapacity + 1
    /\ Len(ohlcv_buffer) = WindowCapacity
    /\ ohlcv_buffer[1].timestamp > 2

\* C21: get_latest_ohlcv(K), K >= 0, returns exactly the last
\* min(K, window length) candles of the window in arrival order, as a list of
\* its own.
C21_ReturnsLastK ==
    feed_last.handler = "get_latest_ohlcv" =>
        LET n == Min(feed_last.count, Len(ohlcv_buffer))
        IN  /\ Len(feed_last.returned) = n
            /\ \A i \in 1..n :
                  feed_last.returned[i]
                     = ohlcv_buffer[Len(ohlcv_buffer) - n + i]
            /\ feed_last.fresh

\* C21: a count of zero on a window that holds candles returned candles
C21_ZeroCountReturnsCandles ==
    /\ feed_last.handler = "get_latest_ohlcv"
    /\ feed_last.count = 0
    /\ feed_last.returned # <<>>

\* C22: a raising candle or ticker consumer is isolated: the handler delivers
\* the record to every registered consumer in registration order, those after
\* a raising one included, keeps the record in the window (candles) or in
\* latest_ticker (tickers), and lets no exception out to the Feed Client, for
\* this record and for every later one.
C22_ConsumerFailureIsolated ==
    /\ feed_last.handler = "ohlcv" =>
          /\ DOMAIN feed_last.delivered = DOMAIN data_callbacks
          /\ \A i \in DOMAIN data_callbacks : feed_last.delivered[i].callback = i
          /\ ~feed_last.escaped
          /\ ohlcv_buffer # <<>>
          /\ ohlcv_buffer[Len(ohlcv_buffer)] = Candle(feed_last.record)
    /\ feed_last.handler = "ticker" =>
          /\ DOMAIN feed_last.delivered = DOMAIN ticker_callbacks
          /\ \A i \in DOMAIN ticker_callbacks :
                feed_last.delivered[i].callback = i
          /\ ~feed_last.escaped
          /\ latest_ticker = Ticker(feed_last.record)

\* C22 witness: the first candle consumer raised on a candle that followed an
\* earlier one, and the consumer registered after it was called with it.
C22_Witness ==
    /\ feed_last.handler = "ohlcv"
    /\ Len(ohlcv_buffer) >= 2
    /\ Len(feed_last.delivered) = 2
    /\ feed_last.delivered[1].raised
    /\ ~feed_last.delivered[2].raised

\* C22 witness: the same for a ticker.
C22_WitnessTicker ==
    /\ feed_last.handler = "ticker"
    /\ Len(feed_last.delivered) = 2
    /\ feed_last.delivered[1].raised
    /\ latest_ticker = Ticker(feed_last.record)

\* 5 * 2^(k-1), capped
BackoffAfter(k) ==
    Min(ReconnectDelay * (2 ^ (k - 1)), MaxReconnectDelay)

\* C23: the wait before the next attempt of the primary client after k
\* consecutive connection failures is min(5 * 2^(k-1), 60): it starts at the
\* base delay, doubles, never exceeds the cap, and starts again at the base
\* delay after a successful (re)connect.
C23_BackoffSchedule ==
    clients["mexc"].pc = "sleeping" =>
        /\ clients["mexc"].failures >= 1
        /\ clients["mexc"].reconnect_delay
              = BackoffAfter(clients["mexc"].failures)
        /\ clients["mexc"].reconnect_delay <= MaxReconnectDelay

\* C23 witness: the primary client waits at the cap for the second time.
C23_Witness ==
    /\ clients["mexc"].pc = "sleeping"
    /\ clients["mexc"].failures = 6
    /\ clients["mexc"].reconnect_delay = MaxReconnectDelay

\* C23 witness: the primary client waits the base delay for a failure that
\* followed a reconnect that followed failures.
C23_WitnessReset ==
    /\ clients["mexc"].pc = "sleeping"
    /\ clients["mexc"].failures = 1
    /\ clients["mexc"].connected >= 2
    /\ clients["mexc"].reconnect_delay = ReconnectDelay

\* C24: each Feed Client auto-reconnects: connect() of a client that has not
\* been stopped does not return after a failed or dropped connection (it
\* goes on to a new attempt).
C24_AutoReconnects ==
    \A c \in Clients : clients[c].pc = "returned" => clients[c].stopped

\* C24: the backup client returned from connect() after a failed attempt,
\* never stopped.
C24_BackupGaveUp ==
    /\ clients["binance"].pc = "returned"
    /\ ~clients["binance"].stopped
    /\ clients["binance"].failures = 1

\* C24: the primary client alone does as stated.
C24_PrimaryReconnects ==
    clients["mexc"].pc = "returned" => clients["mexc"].stopped

\* C25: stop() is idempotent, and whenever stop() is called after connect()
\* was scheduled (before its first step, while connected, during a backoff
\* sleep), no connection attempt is started after it.
C25_NoAttemptAfterStop ==
    /\ MexcStop(MexcStop(clients["mexc"])) = MexcStop(clients["mexc"])
    /\ BinanceStop(BinanceStop(clients["binance"]))
          = BinanceStop(clients["binance"])
    /\ \A c \in Clients : ~clients[c].late_attempt

\* C25: the primary client was stopped before the first step of connect()
\* and is connecting.
C25_StoppedBeforeFirstStep ==
    /\ clients["mexc"].stopped
    /\ clients["mexc"].late_attempt
    /\ clients["mexc"].pc = "connecting"
    /\ clients["mexc"].running
    /\ clients["mexc"].connected = 0 /\ clients["mexc"].failures = 0

\* C25: once its first step is taken, a stopped primary client starts no
\* attempt (stopped while connected or during a backoff sleep).
C25_NoAttemptOnceRunning ==
    [][ (clients["mexc"].pc \notin {"idle", "scheduled"}
            /\ clients["mexc"].stopped /\ ~clients["mexc"].late_attempt)
        => ~clients'["mexc"].late_attempt ]_vars

\* stop() has just been called on client c while it was connected and
\* waiting for the next message
StoppedWhileListening(c) ==
    stream_last.step = "stop" /\ clients[c].pc = "listening"

\* C26: after stop() on a connected Feed Client, primary or backup, its
\* connect() eventually returns, whether or not the exchange sends another
\* message (so that start() eventually returns after stop()).
C26_StopUnblocksConnect ==
    \A c \in Clients :
        StoppedWhileListening(c) ~> (clients[c].pc = "returned")

\* C26: the backup client was stopped while connected and still waits for a
\* message on an open connection.
C26_BackupStillWaiting ==
    /\ clients["binance"].stopped /\ ~clients["binance"].running
    /\ clients["binance"].pc = "listening"
    /\ clients["binance"].websocket.state = "open"
    /\ stream_last.step # "stop"

\* C26: the primary client alone does as stated.
C26_PrimaryStopUnblocks ==
    StoppedWhileListening("mexc") ~> (clients["mexc"].pc = "returned")

\* the subscription messages of connect(), in the order it sends them
Subscriptions == <<"kline", "miniTicker">>

\* C27: on every connection of the primary client, the first and every
\* later one, the candle and the ticker subscription are sent before the
\* client listens on it and before any message from it is processed.
C27_SubscribedBeforeListening ==
    /\ clients["mexc"].pc = "listening"
          => clients["mexc"].websocket.sent = Subscriptions
    /\ (stream_last.client = "mexc" /\ stream_last.step = "receive")
          => clients["mexc"].websocket.sent = Subscriptions

\* C27 witness: a message was processed on a connection made after an
\* earlier one was lost.
C27_Witness ==
    /\ stream_last.client = "mexc" /\ stream_last.step = "receive"
    /\ clients["mexc"].connected >= 2
    /\ clients["mexc"].websocket.state = "open"

\* a payload that is not JSON, or one of a data channel with a field missing
\* or not a number
Malformed(payload) ==
    \/ ~payload.json
    \/ /\ payload.channel \in {"kline", "ticker"}
       /\ payload.required # "present" \/ payload.optional # "present"

\* a payload of a data channel with every field present and a number
WellFormed(payload) ==
    /\ payload.json
    /\ payload.channel \in {"kline", "ticker"}
    /\ payload.required = "present" /\ payload.optional = "present"

\* C28: a malformed payload is skipped: nothing reaches the consumers for it,
\* the client stays listening on the same open connection, and a well-formed
\* message is delivered.
C28_MalformedSkipped ==
    (stream_last.step = "receive") =>
        LET cl == clients[stream_last.client]
        IN  /\ cl.pc = "listening" /\ cl.websocket.state \in {"open", "closing"}
            /\ Malformed(stream_last.payload) => stream_last.delivered = "none"
            /\ WellFormed(stream_last.payload) =>
                  stream_last.delivered
                     = (IF stream_last.payload.channel = "kline"
                        THEN "ohlcv" ELSE "ticker")

\* C28: a ticker of the primary exchange without its bid field reached the
\* consumers with a bid of zero.
C28_DefaultedTickerDelivered ==
    /\ stream_last.client = "mexc" /\ stream_last.step = "receive"
    /\ stream_last.payload.optional = "missing"
    /\ feed_last.handler = "ticker"
    /\ latest_ticker = TickerData(stream_last.payload.value, 0)

\* C28: what does hold: a payload that is not JSON, or whose indexed fields
\* are missing or not numbers, is skipped on both clients.
C28_UnparsableSkipped ==
    (stream_last.step = "receive"
        /\ (~stream_last.payload.json
              \/ stream_last.payload.required # "present"
              \/ stream_last.payload.optional = "non_numeric")
        /\ stream_last.payload.channel # "other") =>
        /\ stream_last.delivered = "none"
        /\ clients[stream_last.client].pc = "listening"

\* C29: a candle (one open time) delivered on one connection of the primary
\* client is not delivered to the consumers, nor appended to the window,
\* again on a later connection.
C29_NoDuplicateAfterReconnect ==
    /\ \A i, j \in DOMAIN received :
          (i < j /\ received[i].timestamp = received[j].timestamp)
             => received[i].connection = received[j].connection
    /\ Len(ohlcv_buffer) = Len(received)

\* C29: the window holds the same candle twice, once from before the
\* disconnect and once from after the reconnect.
C29_DuplicateInWindow ==
    /\ Len(received) = 2 /\ Len(ohlcv_buffer) = 2
    /\ ohlcv_buffer[1] = ohlcv_buffer[2]
    /\ received[1].connection = 1 /\ received[2].connection = 2

\* a BUY/SELL signal with a non-positive price or a stop-loss equal to the
\* entry price
InvalidSignal(signal) ==
    /\ signal.signal_type \in {"BUY", "SELL"}
    /\ signal.price <= 0 \/ signal.stop_loss = signal.price

\* position sizing ran for the last signal: the admission gate let it pass
SizingAttempted(l) == l.outcome \in {"opened", "invalid_size", "error"}

\* C30: an invalid BUY/SELL signal is rejected before position sizing is
\* attempted and creates no position: _process_signal leaves the open set,
\* the capital and the trade counters as they were.
C30_InvalidRejectedBeforeSizing ==
    (last.handler = "candle" /\ InvalidSignal(last.signal)) =>
        /\ last.outcome = "rejected"
        /\ ~SizingAttempted(last)
        /\ last.mid_same

\* C30: sizing ran for a signal with a price of zero and raised.
C30_SizingRaised ==
    /\ last.handler = "candle" /\ InvalidSignal(last.signal)
    /\ last.signal.price = 0
    /\ last.outcome = "error"

\* C30: sizing ran for a signal with a negative price and returned a
\* negative quantity.
C30_SizingNegative ==
    /\ last.handler = "candle" /\ InvalidSignal(last.signal)
    /\ last.signal.price < 0
    /\ last.outcome = "invalid_size"

\* C30: what does hold: an invalid signal creates no position, and one with
\* the stop-loss at the entry price is rejected by the admission gate.
C30_InvalidNeverOpens ==
    (last.handler = "candle" /\ InvalidSignal(last.signal)) =>
        /\ last.outcome # "opened"
        /\ CallsOf("open_position") = {}
        /\ last.mid_same
        /\ last.signal.stop_loss = last.signal.price
              => last.outcome = "rejected"

\* C31: the sized quantity is min(capital * max_risk / |entry - stop|,
\* 0.95 * capital / entry) rounded to the quantity precision (within half a
\* quantity step of the exact value), 0 when entry equals stop, and 95 for
\* capital 10000, risk 2%, entry 100, stop 98.
C31_SizedQuantity ==
    last.handler = "calculate_position_size" =>
        LET price == last.signal.price
            diff  == Abs(price - last.signal.stop_loss)
            q     == last.sized.quantity
        IN  /\ ~last.sized.raised
            /\ diff = 0 => q = 0
            /\ diff # 0 =>
                  /\ q % Grid = 0
                  /\ IF max_risk_per_trade * price <= AffordablePct * diff
                     THEN 2 * Abs(q * 100 * diff
                                    - current_capital * max_risk_per_trade)
                             <= Grid * 100 * diff
                     ELSE 2 * Abs(q * 100 * price
                                    - current_capital * AffordablePct)
                             <= Grid * 100 * price
            /\ (current_capital = Money(10000) /\ max_risk_per_trade = 2
                  /\ price = 100 /\ last.signal.stop_loss = 98)
                  => q = 95 * QtyOne

\* C31 witness: the scenario was sized, and the capital cap decided it.
C31_Witness ==
    /\ last.handler = "calculate_position_size"
    /\ current_capital = Money(10000) /\ max_risk_per_trade = 2
    /\ last.signal.price = 100 /\ last.signal.stop_loss = 98
    /\ last.sized.quantity = 95 * QtyOne

\* C31 witness: a size decided by the risk, and a size of zero.
C31_WitnessRisk ==
    /\ last.handler = "calculate_position_size"
    /\ last.signal.price = 50 /\ last.signal.stop_loss = 98
    /\ max_risk_per_trade = 2
    /\ last.sized.quantity > 0

\* the fields of the Risk Manager and the engine's counters
program_ledger ==
    <<positions, position_history, initial_capital, current_capital,
      max_historical_capital, max_risk_per_trade, max_positions,
      total_trades, winning_trades, trades_executed>>

\* C32: update_position, close_position and force_close_position on a symbol
\* with no open position change nothing, emit no event, and return None,
\* None and False.
C32_AbsentSymbolNoEffect ==
    [][\A symbol \in Symbols :
         ~Has(positions, symbol) =>
           /\ (\E price \in CallPrices : UpdatePositionCall(symbol, price))
                 => /\ UNCHANGED program_ledger
                    /\ last'.events = <<>> /\ last'.delivered = <<>>
                    /\ last'.calls[1].ret = "none"
           /\ ClosePositionCall(symbol, "manual_close")
                 => /\ UNCHANGED program_ledger
                    /\ last'.events = <<>> /\ last'.delivered = <<>>
                    /\ last'.calls[1].position = NoPosition
           /\ ForceClosePosition(symbol)
                 => /\ UNCHANGED program_ledger
                    /\ last'.events = <<>> /\ last'.delivered = <<>>
                    /\ last'.calls = <<>>
                    /\ last'.result = FALSE]_vars

\* C32 witness: close_position was called on a symbol without a position
\* while another symbol has one.
C32_Witness ==
    /\ last.handler = "close_position"
    /\ last.calls[1].position = NoPosition
    /\ positions # <<>>
    /\ ~Has(positions, last.calls[1].symbol)

\* C32 witness: force_close_position returned False while a position of
\* another symbol is open.
C32_WitnessForceClose ==
    /\ last.handler = "force_close"
    /\ ~last.result
    /\ positions # <<>>

\* C32 witness: update_position returned None for a symbol without a position
\* while another symbol has one.
C32_WitnessUpdate ==
    /\ last.handler = "update_position"
    /\ last.calls[1].position = NoPosition
    /\ positions # <<>>

\* the reasons of a full close: stop-loss, TP2, manual and forced close
FullCloseReasons == {"stop_loss", "take_profit_2", "manual_close", "force_close"}

\* C33: every full close (stop-loss, TP2, manual or forced) removes the
\* position from the open set and appends it exactly once to the history;
\* after any sequence of engine operations total_trades = number of open
\* positions + number of positions in the history, and no position is in
\* both.
C33_TradesAccounted ==
    /\ [](/\ total_trades = Len(positions) + Len(position_history)
          /\ \A i, j \in 1..Len(position_history) :
                position_history[i].opened_at = position_history[j].opened_at
                   => i = j
          /\ \A i \in 1..Len(positions), j \in 1..Len(position_history) :
                positions[i].opened_at # position_history[j].opened_at)
    /\ [][\A k \in 1..Len(last'.calls) :
            LET call == last'.calls[k]
            IN  (call.op = "close_position" /\ call.ret \in FullCloseReasons
                   /\ call.position # NoPosition)
                => /\ ~Has(positions', call.symbol)
                   /\ Cardinality({ j \in 1..Len(position_history') :
                          position_history'[j].opened_at
                             = call.position.opened_at }) = 1
                   /\ \A j \in 1..Len(position_history) :
                          position_history[j].opened_at
                             # call.position.opened_at]_vars

\* C33 witness: a second position is open after the first was stopped out
\* and moved to the history.
C33_Witness ==
    /\ Len(positions) = 1 /\ Len(position_history) = 1
    /\ total_trades = 2
    /\ position_history[1].remaining_quantity = 0

\* C33 witness: a forced close has just moved a position to the history.
C33_WitnessForced ==
    /\ last.handler = "force_close"
    /\ last.result
    /\ Len(position_history) >= 1

\* C34: update returns no signal until at least get_required_history()
\* candles (36) have been fed, at most one signal per call, and never a
\* signal of confidence below min_confidence; no HOLD is returned.
C34_SignalGated ==
    /\ GetRequiredHistory = 36
    /\ Len(strategy_last.returned) <= 1
    /\ \A i \in 1..Len(strategy_last.returned) :
          /\ strategy_last.fed >= GetRequiredHistory
          /\ strategy_last.returned[i].confidence >= MinConfidence
          /\ strategy_last.returned[i].signal_type # "HOLD"

\* C34 witness: the 36th candle returned a signal.
C34_Witness ==
    /\ strategy_last.fed = 36
    /\ strategy_last.returned # <<>>

\* C34 witness: a signal of confidence exactly min_confidence was returned.
C34_WitnessThreshold ==
    /\ strategy_last.returned # <<>>
    /\ strategy_last.returned[1].confidence = MinConfidence

\* C35: two signals returned by successive update calls are separated by at
\* least 3600 / max_signals_per_hour seconds of clock time.
C35_SignalsSpaced ==
    (strategy_last.returned # <<>> /\ strategy_last.previous_at # NoTime)
       => (strategy_last.at - strategy_last.previous_at) * MaxSignalsPerHour
             >= 3600

\* C35 witness: a second signal was returned exactly one interval after the
\* first.
C35_Witness ==
    /\ strategy_last.returned # <<>>
    /\ strategy_last.previous_at # NoTime
    /\ (strategy_last.at - strategy_last.previous_at) * MaxSignalsPerHour = 3600

\* unrealized_pnl as the price difference on the remaining quantity
PnlIsCurrent(p) ==
    p.unrealized_pnl = PriceDiff(p, p.current_price) * p.remaining_quantity

\* C36: for every open position, in every reachable state and in the
\* snapshot emitted with its lifecycle event, unrealized_pnl equals the
\* side-signed price difference multiplied by the remaining quantity.
C36_UnrealizedPnlCurrent ==
    /\ \A i \in 1..Len(positions) : PnlIsCurrent(positions[i])
    /\ \A k \in 1..Len(last.events) :
          last.events[k].position.status # "CLOSED"
             => PnlIsCurrent(last.events[k].position)

\* C37: after any sequence of opens and partial or full closes
\* winning_trades <= total_trades, so the reported win rate is at most 100%.
C37_WinsWithinTrades == winning_trades <= total_trades

\* C39: for every position type, quantity, entry price and exit price,
\* add_position followed by close_position(symbol, exit_price) leaves
\* cash_balance equal to its value before add_position plus the realized P&L
\* that close_position returns.
C39_CashRestoredPlusPnl ==
    (/\ portfolio_last.op = "close_position"
     /\ portfolio_last.returned # <<>>
     /\ portfolio_last.previous.op = "add_position"
     /\ portfolio_last.previous.symbol = portfolio_last.symbol)
       => portfolio.cash_balance
             = portfolio_last.previous.cash_before + portfolio_last.returned[1]

\* C38: once stop() has returned the portfolio holds no open position, and
\* the run loop opens none afterwards, for every interleaving of stop() with
\* an iteration of run() in progress.
C38_StoppedHoldsNothing ==
    bot.stop_pc = "returned" => portfolio.positions = <<>>
====
